---------------------------- MODULE Spec2Model ----------------------------
(***************************************************************************)
(* A model of sql-parser-demo: the tokenizer (src/src/token.rs), the       *)
(* furthest-failure error tracker (src/src/error.rs), the precedence       *)
(* climbing expression parser (src/src/expr.rs) and the statement parser   *)
(* (src/src/parser.rs).                                                    *)
(*                                                                         *)
(* Text is a sequence of one-character strings.  Option<T> is a sequence   *)
(* of length 0 (None) or 1 (Some).  Positions are 0-based as in the code;  *)
(* TLA+ sequences are 1-based, so element i of the code is s[i + 1].       *)
(***************************************************************************)
EXTENDS Integers, Sequences, FiniteSets, TLC

VARIABLES
    phase,      \* where the modelled run stands
    input,      \* the source text
    tokens,     \* the token sequence produced by tokenize
    pos,        \* Parser::pos, the cursor
    bt,         \* Backtrace::inner: Option<BacktraceInner>
    calls,      \* history: the track_error calls made so far, in order
    raised,     \* history: the errors error_at_current built, in order
    out,        \* what the run returned
    strsim      \* which release of the strsim crate the build links

vars == <<phase, input, tokens, pos, bt, calls, raised, out, strsim>>

(***************************************************************************)
(* Options, small arithmetic, text helpers                                 *)
(***************************************************************************)
None == <<>>

Some(x) == <<x>>

IsSome(o) == Len(o) = 1

Unwrap(o) == o[1]

Min2(a, b) == IF a <= b THEN a ELSE b

Max2(a, b) == IF a >= b THEN a ELSE b

SetMin(S) == CHOOSE x \in S : \A y \in S : x <= y

SetMax(S) == CHOOSE x \in S : \A y \in S : x >= y

Contains(s, x) == \E i \in 1..Len(s) : s[i] = x

StartsWith(s, p) == Len(p) <= Len(s) /\ SubSeq(s, 1, Len(p)) = p

ContainsSub(s, p) == \E i \in 0..(Len(s) - Len(p)) : SubSeq(s, i + 1, i + Len(p)) = p

\* the elements of the set S of integers in increasing order
SortedSeq(S) ==
    [k \in 1..Cardinality(S) |-> CHOOSE x \in S : Cardinality({y \in S : y < x}) = k - 1]

\* [T]::join(sep), the pieces joined half by half
RECURSIVE Join(_, _)
Join(ss, sep) ==
    IF ss = <<>> THEN <<>>
    ELSE IF Len(ss) = 1 THEN ss[1]
    ELSE LET h == Len(ss) \div 2
         IN  Join(SubSeq(ss, 1, h), sep) \o sep \o Join(SubSeq(ss, h + 1, Len(ss)), sep)

\* str::repeat
Repeat(c, n) == [i \in 1..n |-> c]

LowerLetters == <<"a","b","c","d","e","f","g","h","i","j","k","l","m",
                  "n","o","p","q","r","s","t","u","v","w","x","y","z">>

UpperLetters == <<"A","B","C","D","E","F","G","H","I","J","K","L","M",
                  "N","O","P","Q","R","S","T","U","V","W","X","Y","Z">>

Digits == <<"0","1","2","3","4","5","6","7","8","9">>

IsLower(c) == \E i \in 1..26 : LowerLetters[i] = c

IsUpper(c) == \E i \in 1..26 : UpperLetters[i] = c

IsDigit(c) == \E i \in 1..10 : Digits[i] = c

UpperChar(c) ==
    IF IsLower(c) THEN UpperLetters[CHOOSE i \in 1..26 : LowerLetters[i] = c] ELSE c

\* str::to_uppercase on the characters of the model's alphabet
to_uppercase(s) == [i \in 1..Len(s) |-> UpperChar(s[i])]

\* usize::to_string / Display for a non-negative integer
RECURSIVE to_string(_)
to_string(n) ==
    IF n < 10 THEN <<Digits[n + 1]>> ELSE to_string(n \div 10) \o <<Digits[(n % 10) + 1]>>

\* The number of bytes of the UTF-8 encoding of a character of the alphabet.
NonAscii == {"é"}

len_utf8(c) == IF c \in NonAscii THEN 2 ELSE 1

\* str::len: one byte for each character and one more for each two-byte one
ByteLen(s) == Len(s) + Cardinality({i \in 1..Len(s) : len_utf8(s[i]) = 2})

(***************************************************************************)
(* error.rs: similarity scores.  A score is an exact fraction [n, d].      *)
(***************************************************************************)
Frac(n, d) == [n |-> n, d |-> d]

FracGt(x, y) == x.n * y.d > y.n * x.d

FracEq(x, y) == x.n * y.d = y.n * x.d

\* the matching loop of strsim::generic_jaro: for each element of a, the first
\* unflagged equal element of b inside the search window
RECURSIVE JaroMatch(_, _, _, _, _)
JaroMatch(a, b, i, aflags, bflags) ==
    IF i >= Len(a) THEN [af |-> aflags, bf |-> bflags]
    ELSE LET half == Max2(Len(a), Len(b)) \div 2
             search_range == IF half >= 1 THEN half - 1 ELSE 0
             min_bound == IF i > search_range THEN i - search_range ELSE 0
             max_bound == Min2(Len(b), i + search_range + 1)
             cand == {j \in min_bound..(max_bound - 1) :
                         a[i + 1] = b[j + 1] /\ j \notin bflags}
         IN  IF cand = {} THEN JaroMatch(a, b, i + 1, aflags, bflags)
             ELSE JaroMatch(a, b, i + 1, aflags \cup {i}, bflags \cup {SetMin(cand)})

\* the flagged elements of s, in order
RECURSIVE Flagged(_, _, _)
Flagged(s, flags, i) ==
    IF i >= Len(s) THEN <<>>
    ELSE (IF i \in flags THEN <<s[i + 1]>> ELSE <<>>) \o Flagged(s, flags, i + 1)

\* strsim::jaro
jaro(a, b) ==
    IF Len(a) = 0 /\ Len(b) = 0 THEN Frac(1, 1)
    ELSE IF Len(a) = 0 \/ Len(b) = 0 THEN Frac(0, 1)
    ELSE LET fl == JaroMatch(a, b, 0, {}, {})
             matches == Cardinality(fl.af)
             ma == Flagged(a, fl.af, 0)
             mb == Flagged(b, fl.bf, 0)
             transpositions == Cardinality({k \in 1..matches : ma[k] # mb[k]}) \div 2
         IN  IF matches = 0 THEN Frac(0, 1)
             ELSE Frac(matches * matches * Len(b) + matches * matches * Len(a)
                          + (matches - transpositions) * Len(a) * Len(b),
                       3 * Len(a) * Len(b) * matches)

CommonPrefix(a, b) ==
    Cardinality({k \in 1..Min2(Len(a), Len(b)) : \A m \in 1..k : a[m] = b[m]})

\* strsim::jaro_winkler.  Release 0.11 boosts only a similarity above 0.7 and
\* looks at no more than 4 leading characters; release 0.10 boosts every
\* similarity by the whole common prefix and caps the result at 1.
jaro_winkler(a, b) ==
    LET sim == jaro(a, b)
    IN  IF strsim = "0.11"
        THEN IF FracGt(sim, Frac(7, 10))
             THEN LET p == CommonPrefix(SubSeq(a, 1, Min2(4, Len(a))), b)
                  IN  Frac(10 * sim.n + p * (sim.d - sim.n), 10 * sim.d)
             ELSE sim
        ELSE LET p == CommonPrefix(a, b)
                 jw == Frac(10 * sim.n + p * (sim.d - sim.n), 10 * sim.d)
             IN  IF FracGt(jw, Frac(1, 1)) THEN Frac(1, 1) ELSE jw

KEYWORDS == <<
    <<"S","E","L","E","C","T">>, <<"F","R","O","M">>, <<"W","H","E","R","E">>,
    <<"W","I","T","H">>, <<"R","E","C","U","R","S","I","V","E">>,
    <<"I","N","S","E","R","T">>, <<"U","P","D","A","T","E">>,
    <<"D","E","L","E","T","E">>, <<"U","N","I","O","N">>, <<"A","L","L">>,
    <<"A","N","D">>, <<"O","R">>, <<"A","S">>, <<"J","O","I","N">>,
    <<"L","E","F","T">>, <<"R","I","G","H","T">>, <<"I","N","N","E","R">>,
    <<"O","U","T","E","R">>, <<"O","N">>, <<"G","R","O","U","P">>,
    <<"O","R","D","E","R">>, <<"B","Y">>, <<"H","A","V","I","N","G">>,
    <<"L","I","M","I","T">>, <<"O","F","F","S","E","T">>
>>

\* the threshold of the filter in suggest_keyword: score > 0.8
Threshold == Frac(8, 10)

\* max_by keeping the first of several equally maximum elements
RECURSIVE max_by_first(_, _, _)
max_by_first(scores, k, best) ==
    IF k > Len(scores) THEN best
    ELSE IF ~FracGt(scores[k], [n |-> 8, d |-> 10]) THEN max_by_first(scores, k + 1, best)
    ELSE IF best = 0 \/ FracGt(scores[k], scores[best]) THEN max_by_first(scores, k + 1, k)
    ELSE max_by_first(scores, k + 1, best)

\* Iterator::max_by over the filtered (keyword, score) pairs: the index of the
\* maximum, the last one when several are equally maximum; 0 when none passes.
RECURSIVE max_by(_, _, _)
max_by(scores, k, best) ==
    IF k > Len(scores) THEN best
    ELSE IF ~FracGt(scores[k], Threshold) THEN max_by(scores, k + 1, best)
    ELSE IF best = 0 \/ ~FracGt(scores[best], scores[k]) THEN max_by(scores, k + 1, k)
    ELSE max_by(scores, k + 1, best)

Scores(text) ==
    LET input_upper == to_uppercase(text)
    IN  [k \in 1..Len(KEYWORDS) |-> jaro_winkler(input_upper, KEYWORDS[k])]

suggest_keyword(text) ==
    LET best == max_by(Scores(text), 1, 0)
    IN  IF best = 0 THEN None ELSE Some(KEYWORDS[best])


(***************************************************************************)
(* error.rs: the tracker                                                   *)
(***************************************************************************)
\* position_to_line_col counting the line and the column from 0
position_to_line_col_from_zero(text, p) ==
    LET n == Min2(Len(text), p)
        newlines == {i \in 1..n : text[i] = "\n"}
    IN  <<Cardinality(newlines),
          n - (IF newlines = {} THEN 0 ELSE SetMax(newlines))>>

\* position_to_line_col: walks input.chars().enumerate() and stops at the first
\* character index i >= pos; (line, col) are 1-based.
\* The loop visits the characters of index 0 .. n - 1, n the smaller of pos and
\* the number of characters: each "\n" among them adds one to line and sets col
\* to 1, each other character adds one to col.
position_to_line_col(text, p) ==
    LET n == Min2(Len(text), p)
        newlines == {i \in 1..n : text[i] = "\n"}
    IN  <<1 + Cardinality(newlines),
          1 + n - (IF newlines = {} THEN 0 ELSE SetMax(newlines))>>

\* str::lines: the text split at "\n", a "\r" before it dropped, no empty
\* last line after a final "\n"
lines(text) ==
    LET newlines == {i \in 1..Len(text) : text[i] = "\n"}
        ends == SortedSeq(newlines \cup (IF text # <<>> /\ text[Len(text)] # "\n"
                                         THEN {Len(text) + 1} ELSE {}))
    IN  [k \in 1..Len(ends) |->
            LET first == IF k = 1 THEN 1 ELSE ends[k - 1] + 1
                last == ends[k] - 1
            IN  IF ends[k] <= Len(text) /\ first <= last /\ text[last] = "\r"
                THEN SubSeq(text, first, last - 1)
                ELSE SubSeq(text, first, last)]

\* get_error_context.  The caret "^".red() is the one element "^": the colour
\* escape codes around it depend on the terminal and are left out.
get_error_context(text, p) ==
    LET ls == lines(text)
        lc == position_to_line_col(text, p)
        line_num == lc[1]
        col == lc[2]
    IN  IF line_num > 0 /\ line_num <= Len(ls)
        THEN Some(<<" ", " ">> \o to_string(line_num) \o <<" ", "|", " ">>
                  \o ls[line_num] \o <<"\n">>
                  \o <<" ", " ">> \o Repeat(" ", Len(to_string(line_num)))
                  \o <<" ", "|", " ">> \o Repeat(" ", col - 1) \o <<"^">>)
        ELSE None

BacktraceInner(p, expected, found, text) ==
    [furthest_pos |-> p,
     expected |-> <<expected>>,
     found |-> found,
     line |-> position_to_line_col(text, p)[1],
     column |-> position_to_line_col(text, p)[2]]

\* track_error with the furthest test dropped: any other position replaces
track_error_last_wins(b, p, expected, found, text) ==
    IF b = None THEN Some(BacktraceInner(p, expected, found, text))
    ELSE LET existing == Unwrap(b)
         IN  IF p # existing.furthest_pos
             THEN Some(BacktraceInner(p, expected, found, text))
             ELSE IF ~Contains(existing.expected, expected)
                  THEN Some([existing EXCEPT !.expected = Append(@, expected)])
                  ELSE b

\* track_error with the contains test dropped: every label is pushed
track_error_no_dedupe(b, p, expected, found, text) ==
    IF b = None THEN Some(BacktraceInner(p, expected, found, text))
    ELSE LET existing == Unwrap(b)
         IN  IF p > existing.furthest_pos
             THEN Some(BacktraceInner(p, expected, found, text))
             ELSE IF p = existing.furthest_pos
             THEN Some([existing EXCEPT !.expected = Append(@, expected)])
             ELSE b

\* track_error merging the label of a smaller position into the list
track_error_smaller_merges(b, p, expected, found, text) ==
    IF b = None THEN Some(BacktraceInner(p, expected, found, text))
    ELSE LET existing == Unwrap(b)
         IN  IF p > existing.furthest_pos
             THEN Some(BacktraceInner(p, expected, found, text))
             ELSE IF ~Contains(existing.expected, expected)
                  THEN Some([existing EXCEPT !.expected = Append(@, expected)])
                  ELSE b

\* track_error taking the found text of the latest call at the furthest position
track_error_found_replaced(b, p, expected, found, text) ==
    IF b = None THEN Some(BacktraceInner(p, expected, found, text))
    ELSE LET existing == Unwrap(b)
         IN  IF p > existing.furthest_pos
             THEN Some(BacktraceInner(p, expected, found, text))
             ELSE IF p = existing.furthest_pos
             THEN IF ~Contains(existing.expected, expected)
                  THEN Some([existing EXCEPT !.expected = Append(@, expected),
                                             !.found = found])
                  ELSE Some([existing EXCEPT !.found = found])
             ELSE b

\* track_error moving to a greater position with the line and column it had
track_error_stale_location(b, p, expected, found, text) ==
    IF b = None THEN Some(BacktraceInner(p, expected, found, text))
    ELSE LET existing == Unwrap(b)
         IN  IF p > existing.furthest_pos
             THEN Some([BacktraceInner(p, expected, found, text)
                            EXCEPT !.line = existing.line, !.column = existing.column])
             ELSE IF p = existing.furthest_pos
             THEN IF ~Contains(existing.expected, expected)
                  THEN Some([existing EXCEPT !.expected = Append(@, expected)])
                  ELSE b
             ELSE b

\* Backtrace::track_error: the new value of Backtrace::inner
track_error(b, p, expected, found, text) ==
    IF b = None THEN Some(BacktraceInner(p, expected, found, text))
    ELSE LET existing == Unwrap(b)
         IN  IF p > existing.furthest_pos
             THEN Some(BacktraceInner(p, expected, found, text))
             ELSE IF p = existing.furthest_pos
             THEN IF ~Contains(existing.expected, expected)
                  THEN Some([existing EXCEPT !.expected = Append(@, expected)])
                  ELSE b
             ELSE b

\* expected_str with the single-label case treated like the list case
expected_str_always_list(expected) ==
    <<"o","n","e"," ","o","f",":"," ">> \o Join(expected, <<",", " ">>)

\* get_error: the expected_str of the message
expected_str(expected) ==
    IF Len(expected) = 1 THEN expected[1]
    ELSE <<"o","n","e"," ","o","f",":"," ">> \o Join(expected, <<",", " ">>)

\* get_error: the message
message_of(expected, found) ==
    IF IsSome(found)
    THEN <<"E","x","p","e","c","t","e","d"," ">> \o expected_str(expected)
         \o <<","," ","f","o","u","n","d"," ","'">> \o Unwrap(found) \o <<"'">>
    ELSE <<"E","x","p","e","c","t","e","d"," ">> \o expected_str(expected)
         \o <<","," ","r","e","a","c","h","e","d"," ","e","n","d"," ","o","f"," ","i","n","p","u","t">>

\* get_error rendering the context of position 0 when nothing was tracked
get_error_fallback_context(b, text) ==
    IF b = None
    THEN [message |-> <<"U","n","e","x","p","e","c","t","e","d"," ","e","r","r","o","r">>,
          line |-> 1, column |-> 1, suggestion |-> None,
          context |-> get_error_context(text, 0)]
    ELSE LET inner == Unwrap(b)
         IN  [message |-> message_of(inner.expected, inner.found),
              line |-> inner.line,
              column |-> inner.column,
              suggestion |-> IF IsSome(inner.found)
                             THEN suggest_keyword(Unwrap(inner.found)) ELSE None,
              context |-> get_error_context(text, inner.furthest_pos)]

\* Backtrace::get_error
get_error(b, text) ==
    IF b = None
    THEN [message |-> <<"U","n","e","x","p","e","c","t","e","d"," ","e","r","r","o","r">>,
          line |-> 1, column |-> 1, suggestion |-> None, context |-> None]
    ELSE LET inner == Unwrap(b)
         IN  [message |-> message_of(inner.expected, inner.found),
              line |-> inner.line,
              column |-> inner.column,
              suggestion |-> IF IsSome(inner.found)
                             THEN suggest_keyword(Unwrap(inner.found)) ELSE None,
              context |-> get_error_context(text, inner.furthest_pos)]


(***************************************************************************)
(* token.rs: the tokenizer.  The logos lexer takes, at each position, the  *)
(* longest match of the patterns of TokenKind; a keyword pattern wins over *)
(* the identifier pattern on a match of the same length.                   *)
(***************************************************************************)
Token(text, kind, start, end) == [text |-> text, kind |-> kind, start |-> start, end |-> end]

\* #[logos(skip r"[ \t\r\n\f]+")]
Whitespace == {" ", "\t", "\r", "\n", "\f"}

\* [a-zA-Z_] and [a-zA-Z0-9_]
IdentStart == {LowerLetters[i] : i \in 1..26} \cup {UpperLetters[i] : i \in 1..26} \cup {"_"}

DigitSet == {Digits[i] : i \in 1..10}

IdentPart == IdentStart \cup DigitSet

\* the keyword patterns #[regex("(?i)SELECT")] ... and their kinds
KeywordTable == <<
    <<<<"S","E","L","E","C","T">>, "Select">>,
    <<<<"F","R","O","M">>, "From">>,
    <<<<"W","H","E","R","E">>, "Where">>,
    <<<<"W","I","T","H">>, "With">>,
    <<<<"R","E","C","U","R","S","I","V","E">>, "Recursive">>,
    <<<<"A","S">>, "As">>,
    <<<<"U","N","I","O","N">>, "Union">>,
    <<<<"A","L","L">>, "All">>,
    <<<<"A","N","D">>, "And">>,
    <<<<"O","R">>, "Or">>,
    <<<<"I","N","S","E","R","T">>, "Insert">>,
    <<<<"U","P","D","A","T","E">>, "Update">>,
    <<<<"D","E","L","E","T","E">>, "Delete">>
>>

\* the kind of an identifier-shaped run of characters
WordKind(run) ==
    LET up == to_uppercase(run)
    IN  IF \E k \in 1..Len(KeywordTable) : KeywordTable[k][1] = up
        THEN KeywordTable[CHOOSE k \in 1..Len(KeywordTable) : KeywordTable[k][1] = up][2]
        ELSE "Identifier"

\* the #[token(...)] patterns of one and two characters
PunctTable == <<
    <<<<"!", "=">>, "NotEqual">>, <<<<"<", ">">>, "NotEqual">>,
    <<<<"<", "=">>, "LessEqual">>, <<<<">", "=">>, "GreaterEqual">>,
    <<<<"+">>, "Plus">>, <<<<"-">>, "Minus">>, <<<<"*">>, "Star">>, <<<<"/">>, "Slash">>,
    <<<<"=">>, "Equal">>, <<<<"<">>, "Less">>, <<<<">">>, "Greater">>,
    <<<<"(">>, "LeftParen">>, <<<<")">>, "RightParen">>,
    <<<<",">>, "Comma">>, <<<<";">>, "Semicolon">>
>>

\* the first index j >= i at which text has no character of S (Len(text) + 1 at the end)
RunEnd(text, i, S) ==
    SetMin({j \in i..(Len(text) + 1) : j = Len(text) + 1 \/ text[j] \notin S})

\* the first index j >= i at which text has a character of S (Len(text) + 1 at the end)
RunUntil(text, i, S) ==
    SetMin({j \in i..(Len(text) + 1) : j = Len(text) + 1 \/ text[j] \in S})

\* r"'([^'\\]|\\.)*'" from the opening quote at i: the index after the closing
\* quote, or 0 when the literal is not closed
RECURSIVE StringEnd(_, _)
StringEnd(text, j) ==
    IF j > Len(text) THEN 0
    ELSE IF text[j] = "'" THEN j + 1
    ELSE IF text[j] = "\\"
         THEN IF j + 1 <= Len(text) /\ text[j + 1] # "\n" THEN StringEnd(text, j + 2) ELSE 0
    ELSE StringEnd(text, j + 1)

\* r"-?[0-9]+" and r"-?[0-9]+\.[0-9]+" with the first digit at index d
NumberEnd(text, d) ==
    LET e == RunEnd(text, d, DigitSet)
    IN  IF e + 1 <= Len(text) /\ text[e] = "." /\ text[e + 1] \in DigitSet
        THEN [end |-> RunEnd(text, e + 1, DigitSet), kind |-> "Float"]
        ELSE [end |-> e, kind |-> "Number"]

\* One step of the lexer at character index i: [next, tok], tok being None for
\* skipped text (whitespace, a comment, an unrecognized character).
LexAt(text, i) ==
    LET c == text[i]
        c2 == IF i + 1 <= Len(text) THEN text[i + 1] ELSE ""
    IN  IF c \in Whitespace THEN [next |-> RunEnd(text, i, Whitespace), kind |-> None]
        ELSE IF c = "-" /\ c2 = "-" THEN [next |-> RunUntil(text, i, {"\n"}), kind |-> None]
        ELSE IF c \in IdentStart
        THEN LET e == RunEnd(text, i, IdentPart)
             IN  [next |-> e, kind |-> Some(WordKind(SubSeq(text, i, e - 1)))]
        ELSE IF c \in DigitSet
        THEN LET n == NumberEnd(text, i) IN [next |-> n.end, kind |-> Some(n.kind)]
        ELSE IF c = "-" /\ c2 \in DigitSet
        THEN LET n == NumberEnd(text, i + 1) IN [next |-> n.end, kind |-> Some(n.kind)]
        ELSE IF c = "'" /\ StringEnd(text, i + 1) # 0
        THEN [next |-> StringEnd(text, i + 1), kind |-> Some("String")]
        ELSE IF \E k \in 1..Len(PunctTable) : PunctTable[k][1] = <<c, c2>>
        THEN [next |-> i + 2,
              kind |-> Some(PunctTable[CHOOSE k \in 1..Len(PunctTable) :
                                           PunctTable[k][1] = <<c, c2>>][2])]
        ELSE IF \E k \in 1..Len(PunctTable) : PunctTable[k][1] = <<c>>
        THEN [next |-> i + 1,
              kind |-> Some(PunctTable[CHOOSE k \in 1..Len(PunctTable) :
                                           PunctTable[k][1] = <<c>>][2])]
        ELSE [next |-> i + 1, kind |-> None]

\* the loop of tokenize with spans counted in characters instead of bytes
RECURSIVE lex_from_char_spans(_, _, _)
lex_from_char_spans(text, i, b) ==
    IF i > Len(text) THEN <<>>
    ELSE LET step == LexAt(text, i)
             piece == SubSeq(text, i, step.next - 1)
             e == b + Len(piece)
         IN  (IF IsSome(step.kind) THEN <<Token(piece, Unwrap(step.kind), b, e)>> ELSE <<>>)
             \o lex_from_char_spans(text, step.next, e)

\* the loop of tokenize: i is the character index, b the byte offset of it
RECURSIVE lex_from(_, _, _)
lex_from(text, i, b) ==
    IF i > Len(text) THEN <<>>
    ELSE LET step == LexAt(text, i)
             piece == SubSeq(text, i, step.next - 1)
             e == b + ByteLen(piece)
         IN  (IF IsSome(step.kind) THEN <<Token(piece, Unwrap(step.kind), b, e)>> ELSE <<>>)
             \o lex_from(text, step.next, e)

\* the loop of tokenize leaving the loop at the first lexer error
RECURSIVE lex_from_stop(_, _, _)
lex_from_stop(text, i, b) ==
    IF i > Len(text) THEN <<>>
    ELSE LET step == LexAt(text, i)
             piece == SubSeq(text, i, step.next - 1)
             e == b + ByteLen(piece)
             skipped == text[i] \in Whitespace \/ StartsWith(piece, <<"-", "-">>)
         IN  IF IsSome(step.kind)
             THEN <<Token(piece, Unwrap(step.kind), b, e)>> \o lex_from_stop(text, step.next, e)
             ELSE IF skipped THEN lex_from_stop(text, step.next, e)
             ELSE <<>>

\* a tokenize that stops at the first unrecognized character
tokenize_stop_at_error(text) ==
    lex_from_stop(text, 1, 0) \o <<Token(<<>>, "Eof", ByteLen(text), ByteLen(text))>>

\* a tokenize that does not append the Eof token
tokenize_no_eof(text) == lex_from(text, 1, 0)

\* tokenize
tokenize(text) ==
    lex_from(text, 1, 0) \o <<Token(<<>>, "Eof", ByteLen(text), ByteLen(text))>>

(***************************************************************************)
(* parser.rs: the parser state and its primitives.                         *)
(*                                                                         *)
(* A parser value P holds the fields of Parser (tokens, pos, input), the   *)
(* Backtrace it refers to (bt), the history of track_error calls (log) and *)
(* whether an index has gone out of bounds (panic).  A parsing method maps *)
(* P to a result [st, P, val]: st is "Ok" (val the parsed value), "Err"    *)
(* (val the ParseError, kept as the tracker state get_error read and the   *)
(* message that replaces its own, if any) or "Diverged" (the call depth d  *)
(* given to the method was used up).                                       *)
(***************************************************************************)
\* Parser::new on the Backtrace the invocation before left behind
Parser_shared_tracker(toks, text) ==
    [tokens |-> toks, input |-> text, pos |-> 0, bt |-> bt, log |-> <<>>,
     raised |-> <<>>, panic |-> FALSE]

\* Parser::new on a fresh Backtrace::new
Parser(toks, text) ==
    [tokens |-> toks, input |-> text, pos |-> 0, bt |-> None, log |-> <<>>,
     raised |-> <<>>, panic |-> FALSE]

Ok(P, v) == [st |-> "Ok", P |-> P, val |-> v]

\* Err(self.backtrace.get_error(self.input)), the message replaced when msg is Some
Err(P, msg) == [st |-> "Err", P |-> P, val |-> [bt |-> P.bt, message |-> msg]]

Diverged(P) == [st |-> "Diverged", P |-> P, val |-> None]

\* the ParseError an Err result carries
ParseErrorOf(r) ==
    LET e == get_error(r.val.bt, r.P.input)
    IN  IF IsSome(r.val.message) THEN [e EXCEPT !.message = Unwrap(r.val.message)] ELSE e

\* format!("{:?}", kind) for a TokenKind
DebugTable == <<
    <<"Select", <<"S","e","l","e","c","t">>>>,
    <<"From", <<"F","r","o","m">>>>,
    <<"Where", <<"W","h","e","r","e">>>>,
    <<"With", <<"W","i","t","h">>>>,
    <<"Recursive", <<"R","e","c","u","r","s","i","v","e">>>>,
    <<"As", <<"A","s">>>>,
    <<"Union", <<"U","n","i","o","n">>>>,
    <<"All", <<"A","l","l">>>>,
    <<"And", <<"A","n","d">>>>,
    <<"Or", <<"O","r">>>>,
    <<"Insert", <<"I","n","s","e","r","t">>>>,
    <<"Update", <<"U","p","d","a","t","e">>>>,
    <<"Delete", <<"D","e","l","e","t","e">>>>,
    <<"Identifier", <<"I","d","e","n","t","i","f","i","e","r">>>>,
    <<"String", <<"S","t","r","i","n","g">>>>,
    <<"Number", <<"N","u","m","b","e","r">>>>,
    <<"Float", <<"F","l","o","a","t">>>>,
    <<"Plus", <<"P","l","u","s">>>>,
    <<"Minus", <<"M","i","n","u","s">>>>,
    <<"Star", <<"S","t","a","r">>>>,
    <<"Slash", <<"S","l","a","s","h">>>>,
    <<"Equal", <<"E","q","u","a","l">>>>,
    <<"NotEqual", <<"N","o","t","E","q","u","a","l">>>>,
    <<"Less", <<"L","e","s","s">>>>,
    <<"Greater", <<"G","r","e","a","t","e","r">>>>,
    <<"LessEqual", <<"L","e","s","s","E","q","u","a","l">>>>,
    <<"GreaterEqual", <<"G","r","e","a","t","e","r","E","q","u","a","l">>>>,
    <<"LeftParen", <<"L","e","f","t","P","a","r","e","n">>>>,
    <<"RightParen", <<"R","i","g","h","t","P","a","r","e","n">>>>,
    <<"Comma", <<"C","o","m","m","a">>>>,
    <<"Semicolon", <<"S","e","m","i","c","o","l","o","n">>>>,
    <<"Eof", <<"E","o","f">>>>
>>

DebugFmt(kind) == DebugTable[CHOOSE k \in 1..Len(DebugTable) : DebugTable[k][1] = kind][2]

\* self.backtrace.track_error(pos, expected, found, self.input)
track(P, p, expected, found) ==
    [P EXCEPT !.bt = track_error(P.bt, p, expected, found, P.input),
              !.log = Append(@, [pos |-> p, expected |-> expected, found |-> found])]

\* Parser::current
current(P) == IF P.pos < Len(P.tokens) THEN Some(P.tokens[P.pos + 1]) ELSE None

\* advance going back to the first token when it stands on the last one
advance_wrapping(P) ==
    IF P.pos >= Len(P.tokens) THEN [P EXCEPT !.panic = TRUE]
    ELSE IF P.pos < Len(P.tokens) - 1 THEN [P EXCEPT !.pos = @ + 1]
    ELSE [P EXCEPT !.pos = 0]

\* advance without the test against the last token
advance_unchecked(P) ==
    IF P.pos >= Len(P.tokens) THEN [P EXCEPT !.panic = TRUE]
    ELSE [P EXCEPT !.pos = @ + 1]

\* Parser::advance: the parser after the call; &self.tokens[self.pos] panics
\* when pos is out of bounds
advance(P) ==
    IF P.pos >= Len(P.tokens) THEN [P EXCEPT !.panic = TRUE]
    ELSE IF P.pos < Len(P.tokens) - 1 THEN [P EXCEPT !.pos = @ + 1]
    ELSE P

\* the position tracked when current() is None: the end of the previous token
end_of_previous(P) ==
    IF P.pos > 0 /\ Len(P.tokens) # 0
    THEN IF P.pos - 1 < Len(P.tokens) THEN P.tokens[P.pos].end ELSE 0
    ELSE 0

\* self.tokens[self.pos - 1] on the None branch panics when pos - 1 is out of bounds
none_branch(P, expected) ==
    LET P1 == track(P, end_of_previous(P), expected, None)
    IN  IF P.pos > 0 /\ Len(P.tokens) # 0 /\ P.pos - 1 >= Len(P.tokens)
        THEN [P EXCEPT !.panic = TRUE] ELSE P1

\* Parser::expect
expect(P, expected) ==
    LET c == current(P)
    IN  IF IsSome(c) /\ Unwrap(c).kind = expected THEN Ok(advance(P), Unwrap(c))
        ELSE IF IsSome(c)
        THEN Err(track(P, Unwrap(c).start, DebugFmt(expected), Some(Unwrap(c).text)), None)
        ELSE Err(none_branch(P, DebugFmt(expected)), None)

\* Parser::try_consume: [P, ok]
try_consume(P, kind) ==
    LET c == current(P)
    IN  IF IsSome(c) /\ Unwrap(c).kind = kind
        THEN [P |-> advance(P), ok |-> TRUE]
        ELSE [P |-> P, ok |-> FALSE]

\* Parser::parse_identifier
parse_identifier(P) ==
    LET c == current(P)
    IN  IF IsSome(c) /\ Unwrap(c).kind = "Identifier" THEN Ok(advance(P), Unwrap(c).text)
        ELSE IF IsSome(c)
        THEN Err(track(P, Unwrap(c).start, <<"i","d","e","n","t","i","f","i","e","r">>, Some(Unwrap(c).text)), None)
        ELSE Err(none_branch(P, <<"i","d","e","n","t","i","f","i","e","r">>), None)

\* Parser::error_at_current: get_error with its message replaced; nothing is
\* tracked.  The history keeps the cursor and the tracker the error was built from.
error_at_current(P, msg) ==
    Err([P EXCEPT !.raised = Append(@, [cursor |-> P.pos, message |-> msg, bt |-> P.bt])],
        Some(msg))

\* Parser::check_for_keyword_typo: [P, ok]
check_for_keyword_typo(P, expected_keyword, starts_with_chars) ==
    LET c == current(P)
    IN  IF /\ IsSome(c)
           /\ Unwrap(c).kind = "Identifier"
           /\ \E k \in 1..Len(starts_with_chars) :
                  StartsWith(to_uppercase(Unwrap(c).text), <<starts_with_chars[k]>>)
        THEN [P |-> track(P, Unwrap(c).start, expected_keyword, Some(Unwrap(c).text)),
              ok |-> TRUE]
        ELSE [P |-> P, ok |-> FALSE]

\* Parser::check_for_where_typo: [P, ok]
check_for_where_typo(P) ==
    LET c == current(P)
    IN  IF /\ IsSome(c)
           /\ Unwrap(c).kind = "Identifier"
           /\ \/ StartsWith(to_uppercase(Unwrap(c).text), <<"W">>)
              \/ ContainsSub(to_uppercase(Unwrap(c).text), <<"H", "E", "R">>)
        THEN [P |-> track(P, Unwrap(c).start, <<"W","H","E","R","E">>, Some(Unwrap(c).text)),
              ok |-> TRUE]
        ELSE [P |-> P, ok |-> FALSE]

\* Parser::check_for_specific_where_typos: [P, ok]
check_for_specific_where_typos(P) ==
    LET c == current(P)
        text == to_uppercase(Unwrap(c).text)
    IN  IF /\ IsSome(c)
           /\ Unwrap(c).kind = "Identifier"
           /\ \/ StartsWith(text, <<"W","H","E","E","R">>)
              \/ StartsWith(text, <<"W","H","E","R">>)
              \/ StartsWith(text, <<"W","H","R","E">>)
              \/ text = <<"W","H","E","E","R">>
        THEN [P |-> track(P, Unwrap(c).start, <<"W","H","E","R","E">>, Some(Unwrap(c).text)),
              ok |-> TRUE]
        ELSE [P |-> P, ok |-> FALSE]

(***************************************************************************)
(* expr.rs: the expression tree and the precedence climbing parser         *)
(***************************************************************************)
Column(name) == [node |-> "Column", name |-> name]

Literal(variant, value) == [node |-> "Literal", lit |-> variant, value |-> value]

Binary(left, op, right) == [node |-> "Binary", left |-> left, op |-> op, right |-> right]

Paren(inner) == [node |-> "Paren", inner |-> inner]

Star == [node |-> "Star"]

\* BinaryOp::from_token
from_token(kind) ==
    CASE kind = "And" -> Some("And")
      [] kind = "Or" -> Some("Or")
      [] kind = "Equal" -> Some("Equal")
      [] kind = "NotEqual" -> Some("NotEqual")
      [] kind = "Less" -> Some("Less")
      [] kind = "Greater" -> Some("Greater")
      [] kind = "LessEqual" -> Some("LessEqual")
      [] kind = "GreaterEqual" -> Some("GreaterEqual")
      [] kind = "Plus" -> Some("Plus")
      [] kind = "Minus" -> Some("Minus")
      [] kind = "Star" -> Some("Multiply")
      [] kind = "Slash" -> Some("Divide")
      [] OTHER -> None

\* a table in which the additive operators bind tighter than the multiplicative
get_precedence_swapped(kind) ==
    CASE kind = "Or" -> Some(<<10, TRUE>>)
      [] kind = "And" -> Some(<<20, TRUE>>)
      [] kind \in {"Equal", "NotEqual"} -> Some(<<30, TRUE>>)
      [] kind \in {"Less", "Greater", "LessEqual", "GreaterEqual"} -> Some(<<40, TRUE>>)
      [] kind \in {"Plus", "Minus"} -> Some(<<60, TRUE>>)
      [] kind \in {"Star", "Slash"} -> Some(<<50, TRUE>>)
      [] OTHER -> None

\* a table in which the additive operators are right-associative
get_precedence_right(kind) ==
    CASE kind = "Or" -> Some(<<10, TRUE>>)
      [] kind = "And" -> Some(<<20, TRUE>>)
      [] kind \in {"Equal", "NotEqual"} -> Some(<<30, TRUE>>)
      [] kind \in {"Less", "Greater", "LessEqual", "GreaterEqual"} -> Some(<<40, TRUE>>)
      [] kind \in {"Plus", "Minus"} -> Some(<<50, FALSE>>)
      [] kind \in {"Star", "Slash"} -> Some(<<60, TRUE>>)
      [] OTHER -> None

\* get_precedence: Option<(precedence, is_left_associative)>
get_precedence(kind) ==
    CASE kind = "Or" -> Some(<<10, TRUE>>)
      [] kind = "And" -> Some(<<20, TRUE>>)
      [] kind \in {"Equal", "NotEqual"} -> Some(<<30, TRUE>>)
      [] kind \in {"Less", "Greater", "LessEqual", "GreaterEqual"} -> Some(<<40, TRUE>>)
      [] kind \in {"Plus", "Minus"} -> Some(<<50, TRUE>>)
      [] kind \in {"Star", "Slash"} -> Some(<<60, TRUE>>)
      [] OTHER -> None

\* The digits of i64::MAX and of the magnitude of i64::MIN.
I64MaxDigits == <<"9","2","2","3","3","7","2","0","3","6","8","5","4","7","7","5","8","0","7">>

I64MinDigits == <<"9","2","2","3","3","7","2","0","3","6","8","5","4","7","7","5","8","0","8">>

\* s without its leading zeros, one digit at least
RECURSIVE StripZeros(_)
StripZeros(ds) == IF Len(ds) > 1 /\ ds[1] = "0" THEN StripZeros(Tail(ds)) ELSE ds

DigitValue(c) == (CHOOSE i \in 1..10 : Digits[i] = c) - 1

\* ds <= limit for two digit strings of the same length
RECURSIVE DigitsLeq(_, _)
DigitsLeq(ds, limit) ==
    IF ds = <<>> THEN TRUE
    ELSE IF DigitValue(ds[1]) < DigitValue(limit[1]) THEN TRUE
    ELSE IF DigitValue(ds[1]) > DigitValue(limit[1]) THEN FALSE
    ELSE DigitsLeq(Tail(ds), Tail(limit))

\* str::parse::<i64> on a text of the shape -?[0-9]+: None when the value does
\* not fit in 64 bits; the value is kept as its sign and decimal digits.
parse_i64(text) ==
    LET neg == text[1] = "-"
        ds == StripZeros(IF neg THEN Tail(text) ELSE text)
        limit == IF neg THEN I64MinDigits ELSE I64MaxDigits
    IN  IF Len(ds) < Len(limit) \/ (Len(ds) = Len(limit) /\ DigitsLeq(ds, limit))
        THEN Some([neg |-> neg /\ ds # <<"0">>, digits |-> ds])
        ELSE None

\* str::parse::<f64> on a text of the shape -?[0-9]+\.[0-9]+ always succeeds (a
\* large value becomes infinity); the value is kept as the text it was read from.
parse_f64(text) == Some(text)

\* `?` applied to a result: an error (or a call that did not return) is what
\* the caller returns, a value goes on into the rest of the caller, k
Try(r, k(_)) == IF r.st # "Ok" THEN r ELSE k(r)

\* `?` applied to a result whose value is wrapped on success
MapOk(r, f(_)) == IF r.st = "Ok" THEN Ok(r.P, f(r.val)) ELSE r

\* match on a result whose Err arm goes on into the rest of the caller, k
OrElse(r, k(_)) == IF r.st \in {"Ok", "Diverged"} THEN r ELSE k(r)

RECURSIVE parse_expr_with_precedence(_, _, _)
RECURSIVE climb(_, _, _, _)
RECURSIVE parse_primary(_, _)

\* Parser::parse_expr
parse_expr(P, d) == parse_expr_with_precedence(P, 0, d)

\* Parser::parse_expr_with_precedence
parse_expr_with_precedence(P, min_prec, d) ==
    IF d = 0 THEN Diverged(P)
    ELSE Try(parse_primary(P, d - 1), LAMBDA r : climb(r.P, r.val, min_prec, d - 1))

\* the while loop of parse_expr_with_precedence, left being the tree so far
climb(P, left, min_prec, d) ==
    IF d = 0 THEN Diverged(P)
    ELSE LET c == current(P)
             pr == get_precedence(Unwrap(c).kind)
         IN  IF ~IsSome(c) THEN Ok(P, left)
             ELSE IF ~IsSome(pr) THEN Ok(P, left)
             ELSE IF Unwrap(pr)[1] < min_prec THEN Ok(P, left)
             ELSE LET op_kind == Unwrap(c).kind
                      next_min_prec == IF Unwrap(pr)[2] THEN Unwrap(pr)[1] + 1
                                       ELSE Unwrap(pr)[1]
                  IN  Try(parse_expr_with_precedence(advance(P), next_min_prec, d - 1),
                          LAMBDA r :
                              climb(r.P,
                                    IF IsSome(from_token(op_kind))
                                    THEN Binary(left, Unwrap(from_token(op_kind)), r.val)
                                    ELSE left,
                                    min_prec, d - 1))

\* parse_primary taking the closing parenthesis when it is there
parse_primary_optional_close(P, d) ==
    IF d = 0 THEN Diverged(P)
    ELSE LET c == current(P)
             token == Unwrap(c)
             P1 == advance(P)
         IN  IF ~IsSome(c)
             THEN error_at_current(P, <<"U","n","e","x","p","e","c","t","e","d"," ","e","n","d"," ","o","f"," ","i","n","p","u","t">>)
             ELSE CASE token.kind = "Number" ->
                         IF IsSome(parse_i64(token.text))
                         THEN Ok(P1, Literal("Number", Unwrap(parse_i64(token.text))))
                         ELSE error_at_current(P1, <<"I","n","v","a","l","i","d"," ","n","u","m","b","e","r">>)
                    [] token.kind = "Float" ->
                         IF IsSome(parse_f64(token.text))
                         THEN Ok(P1, Literal("Float", Unwrap(parse_f64(token.text))))
                         ELSE error_at_current(P1, <<"I","n","v","a","l","i","d"," ","f","l","o","a","t">>)
                    [] token.kind = "String" ->
                         Ok(P1, Literal("String", SubSeq(token.text, 2, Len(token.text) - 1)))
                    [] token.kind = "Identifier" -> Ok(P1, Column(token.text))
                    [] token.kind = "Star" -> Ok(P1, Star)
                    [] token.kind = "LeftParen" ->
                         Try(parse_expr(P1, d - 1),
                             LAMBDA r :
                                 Ok(try_consume(r.P, "RightParen").P, Paren(r.val)))
                    [] OTHER -> error_at_current(P, <<"E","x","p","e","c","t","e","d"," ","e","x","p","r","e","s","s","i","o","n">>)

\* Parser::parse_primary
parse_primary(P, d) ==
    IF d = 0 THEN Diverged(P)
    ELSE LET c == current(P)
             token == Unwrap(c)
             P1 == advance(P)
         IN  IF ~IsSome(c)
             THEN error_at_current(P, <<"U","n","e","x","p","e","c","t","e","d"," ","e","n","d"," ","o","f"," ","i","n","p","u","t">>)
             ELSE CASE token.kind = "Number" ->
                         IF IsSome(parse_i64(token.text))
                         THEN Ok(P1, Literal("Number", Unwrap(parse_i64(token.text))))
                         ELSE error_at_current(P1, <<"I","n","v","a","l","i","d"," ","n","u","m","b","e","r">>)
                    [] token.kind = "Float" ->
                         IF IsSome(parse_f64(token.text))
                         THEN Ok(P1, Literal("Float", Unwrap(parse_f64(token.text))))
                         ELSE error_at_current(P1, <<"I","n","v","a","l","i","d"," ","f","l","o","a","t">>)
                    [] token.kind = "String" ->
                         Ok(P1, Literal("String", SubSeq(token.text, 2, Len(token.text) - 1)))
                    [] token.kind = "Identifier" -> Ok(P1, Column(token.text))
                    [] token.kind = "Star" -> Ok(P1, Star)
                    [] token.kind = "LeftParen" ->
                         Try(parse_expr(P1, d - 1),
                             LAMBDA r :
                                 Try(expect(r.P, "RightParen"),
                                     LAMBDA e : Ok(e.P, Paren(r.val))))
                    [] OTHER -> error_at_current(P, <<"E","x","p","e","c","t","e","d"," ","e","x","p","r","e","s","s","i","o","n">>)

(***************************************************************************)
(* ast.rs and parser.rs: the statement parser                              *)
(***************************************************************************)
SelectStmt(projection, from, where_clause) ==
    [projection |-> projection, from |-> from, where_clause |-> where_clause]

TableRef(name, alias) == [name |-> name, alias |-> alias]

With(recursive, ctes) == [recursive |-> recursive, ctes |-> ctes]

CTE(name, columns, query) == [name |-> name, columns |-> columns, query |-> query]

QuerySelect(stmt) == [node |-> "Select", select |-> stmt]

QueryWith(with, query) == [node |-> "With", with |-> with, query |-> query]

QueryUnion(left, all, right) == [node |-> "Union", left |-> left, all |-> all, right |-> right]

StatementQuery(query) == [node |-> "Query", query |-> query]

\* parse_table_ref with the WHERE-typo check made on the table name itself
parse_table_ref_typo_first(P) ==
    IF check_for_specific_where_typos(P).ok
    THEN Err(check_for_specific_where_typos(P).P, None)
    ELSE Try(parse_identifier(P),
             LAMBDA n :
                 LET a == try_consume(n.P, "As")
                     c == current(n.P)
                     typo == check_for_specific_where_typos(n.P)
                 IN  IF a.ok
                     THEN MapOk(parse_identifier(a.P), LAMBDA alias : TableRef(n.val, Some(alias)))
                     ELSE IF IsSome(c) /\ Unwrap(c).kind = "Identifier"
                     THEN IF typo.ok THEN Err(typo.P, None)
                          ELSE MapOk(parse_identifier(typo.P),
                                     LAMBDA alias : TableRef(n.val, Some(alias)))
                     ELSE Ok(n.P, TableRef(n.val, None)))

\* parse_table_ref taking every identifier after the table name as the alias
parse_table_ref_any_alias(P) ==
    Try(parse_identifier(P),
        LAMBDA n :
            LET a == try_consume(n.P, "As")
                c == current(n.P)
            IN  IF a.ok
                THEN MapOk(parse_identifier(a.P), LAMBDA alias : TableRef(n.val, Some(alias)))
                ELSE IF IsSome(c) /\ Unwrap(c).kind = "Identifier"
                THEN MapOk(parse_identifier(n.P), LAMBDA alias : TableRef(n.val, Some(alias)))
                ELSE Ok(n.P, TableRef(n.val, None)))

\* Parser::parse_table_ref
parse_table_ref(P) ==
    Try(parse_identifier(P),
        LAMBDA n :
            LET a == try_consume(n.P, "As")
                c == current(n.P)
                typo == check_for_specific_where_typos(n.P)
            IN  IF a.ok
                THEN MapOk(parse_identifier(a.P), LAMBDA alias : TableRef(n.val, Some(alias)))
                ELSE IF IsSome(c) /\ Unwrap(c).kind = "Identifier"
                THEN IF typo.ok THEN Err(typo.P, None)
                     ELSE MapOk(parse_identifier(typo.P),
                                LAMBDA alias : TableRef(n.val, Some(alias)))
                ELSE Ok(n.P, TableRef(n.val, None)))

\* the while loop of parse_expr_list
RECURSIVE expr_list_loop(_, _, _)
expr_list_loop(P, exprs, d) ==
    IF d = 0 THEN Diverged(P)
    ELSE LET comma == try_consume(P, "Comma")
         IN  IF ~comma.ok THEN Ok(P, exprs)
             ELSE Try(parse_expr(comma.P, d - 1),
                      LAMBDA e : expr_list_loop(e.P, Append(exprs, e.val), d - 1))

\* Parser::parse_expr_list
parse_expr_list(P, d) ==
    IF d = 0 THEN Diverged(P)
    ELSE Try(parse_expr(P, d - 1), LAMBDA e : expr_list_loop(e.P, <<e.val>>, d - 1))

\* the while loop of parse_identifier_list
RECURSIVE ident_list_loop(_, _, _)
ident_list_loop(P, idents, d) ==
    IF d = 0 THEN Diverged(P)
    ELSE LET comma == try_consume(P, "Comma")
         IN  IF ~comma.ok THEN Ok(P, idents)
             ELSE Try(parse_identifier(comma.P),
                      LAMBDA i : ident_list_loop(i.P, Append(idents, i.val), d - 1))

\* Parser::parse_identifier_list
parse_identifier_list(P, d) ==
    Try(parse_identifier(P), LAMBDA i : ident_list_loop(i.P, <<i.val>>, d))

\* parse_select: the projection
projection_clause(P, d) ==
    LET star == try_consume(P, "Star")
    IN  IF star.ok THEN Ok(star.P, <<Star>>) ELSE parse_expr_list(P, d)

\* a FROM clause whose typo check treats every identifier as a typo of FROM
from_clause_any_identifier(P) ==
    LET from_kw == try_consume(P, "From")
        from_typo == check_for_keyword_typo(P, <<"F","R","O","M">>, <<"F">>)
        c == current(P)
    IN  IF from_kw.ok THEN MapOk(parse_table_ref(from_kw.P), LAMBDA t : Some(t))
        ELSE IF IsSome(c) /\ Unwrap(c).kind = "Identifier"
        THEN Err(track(P, Unwrap(c).start, <<"F","R","O","M">>, Some(Unwrap(c).text)), None)
        ELSE Ok(from_typo.P, None)

\* parse_select: the FROM clause
from_clause(P) ==
    LET from_kw == try_consume(P, "From")
        from_typo == check_for_keyword_typo(P, <<"F","R","O","M">>, <<"F">>)
    IN  IF from_kw.ok THEN MapOk(parse_table_ref(from_kw.P), LAMBDA t : Some(t))
        ELSE IF from_typo.ok THEN Err(from_typo.P, None)
        ELSE Ok(from_typo.P, None)

\* a WHERE clause whose typo check looks at the first letter only
where_clause_first_letter(P, d) ==
    LET where_kw == try_consume(P, "Where")
        where_typo == check_for_keyword_typo(P, <<"W","H","E","R","E">>, <<"W">>)
    IN  IF where_kw.ok THEN MapOk(parse_expr(where_kw.P, d), LAMBDA e : Some(e))
        ELSE IF where_typo.ok THEN Err(where_typo.P, None)
        ELSE Ok(where_typo.P, None)

\* parse_select: the WHERE clause
where_clause(P, d) ==
    LET where_kw == try_consume(P, "Where")
        where_typo == check_for_where_typo(P)
    IN  IF where_kw.ok THEN MapOk(parse_expr(where_kw.P, d), LAMBDA e : Some(e))
        ELSE IF where_typo.ok THEN Err(where_typo.P, None)
        ELSE Ok(where_typo.P, None)

\* the clauses of parse_select returning the statement whatever had_errors is
select_clauses_forgiving(P, had_errors, d) ==
    Try(projection_clause(P, d),
        LAMBDA projection :
            Try(from_clause(projection.P),
                LAMBDA from :
                    Try(where_clause(from.P, d),
                        LAMBDA where :
                            Ok(where.P, SelectStmt(projection.val, from.val, where.val)))))

\* parse_select after the SELECT position: projection, FROM, WHERE, had_errors
select_clauses(P, had_errors, d) ==
    Try(projection_clause(P, d),
        LAMBDA projection :
            Try(from_clause(projection.P),
                LAMBDA from :
                    Try(where_clause(from.P, d),
                        LAMBDA where :
                            IF had_errors THEN Err(where.P, None)
                            ELSE Ok(where.P,
                                    SelectStmt(projection.val, from.val, where.val)))))

\* Parser::parse_select
parse_select(P, d) ==
    IF d = 0 THEN Diverged(P)
    ELSE LET c == current(P)
             token == Unwrap(c)
             tracked == track(P, token.start, <<"S","E","L","E","C","T">>, Some(token.text))
             text == to_uppercase(token.text)
         IN  IF ~IsSome(c) THEN Err(none_branch(P, <<"S","E","L","E","C","T">>), None)
             ELSE IF token.kind = "Select" THEN select_clauses(advance(P), FALSE, d - 1)
             ELSE IF token.kind = "Identifier"
             THEN IF StartsWith(text, <<"S", "E", "L">>) /\ ByteLen(text) >= 4
                  THEN select_clauses(advance(tracked), TRUE, d - 1)
                  ELSE Err(tracked, None)
             ELSE Err(tracked, None)

RECURSIVE parse_query(_, _)
RECURSIVE parse_with(_, _)
RECURSIVE parse_cte(_, _)
RECURSIVE cte_list_loop(_, _, _)

\* parse_cte: the optional column list
cte_columns(P, d) ==
    LET c == current(P)
    IN  IF IsSome(c) /\ Unwrap(c).kind = "LeftParen"
        THEN Try(parse_identifier_list(advance(P), d - 1),
                 LAMBDA cols :
                     Try(expect(cols.P, "RightParen"),
                         LAMBDA close : Ok(close.P, Some(cols.val))))
        ELSE Ok(P, None)

\* parse_cte with AS and the parentheses around the query optional
parse_cte_bare_query(P, d) ==
    IF d = 0 THEN Diverged(P)
    ELSE Try(parse_identifier(P),
             LAMBDA name :
                 Try(cte_columns(name.P, d),
                     LAMBDA columns :
                         LET as == try_consume(columns.P, "As")
                             open == try_consume(as.P, "LeftParen")
                         IN  Try(parse_query(open.P, d - 1),
                                 LAMBDA query :
                                     LET close == try_consume(query.P, "RightParen")
                                     IN  Ok(close.P,
                                            CTE(name.val, columns.val, query.val)))))

\* Parser::parse_cte
parse_cte(P, d) ==
    IF d = 0 THEN Diverged(P)
    ELSE Try(parse_identifier(P),
             LAMBDA name :
                 Try(cte_columns(name.P, d),
                     LAMBDA columns :
                         Try(expect(columns.P, "As"),
                             LAMBDA as :
                                 Try(expect(as.P, "LeftParen"),
                                     LAMBDA open :
                                         Try(parse_query(open.P, d - 1),
                                             LAMBDA query :
                                                 Try(expect(query.P, "RightParen"),
                                                     LAMBDA close :
                                                         Ok(close.P,
                                                            CTE(name.val, columns.val,
                                                                query.val))))))))

\* the while loop of parse_with
cte_list_loop(P, ctes, d) ==
    IF d = 0 THEN Diverged(P)
    ELSE LET comma == try_consume(P, "Comma")
         IN  IF ~comma.ok THEN Ok(P, ctes)
             ELSE Try(parse_cte(comma.P, d - 1),
                      LAMBDA cte : cte_list_loop(cte.P, Append(ctes, cte.val), d - 1))

\* parse_with reading the RECURSIVE flag from the token under the cursor after
\* the keyword has been consumed
parse_with_flag_late(P, d) ==
    IF d = 0 THEN Diverged(P)
    ELSE Try(expect(P, "With"),
             LAMBDA with :
                 LET recursive == try_consume(with.P, "Recursive")
                     late == try_consume(recursive.P, "Recursive")
                 IN  Try(parse_cte(recursive.P, d - 1),
                         LAMBDA first :
                             MapOk(cte_list_loop(first.P, <<first.val>>, d - 1),
                                   LAMBDA cs : With(late.ok, cs))))

\* Parser::parse_with
parse_with(P, d) ==
    IF d = 0 THEN Diverged(P)
    ELSE Try(expect(P, "With"),
             LAMBDA with :
                 LET recursive == try_consume(with.P, "Recursive")
                 IN  Try(parse_cte(recursive.P, d - 1),
                         LAMBDA first :
                             MapOk(cte_list_loop(first.P, <<first.val>>, d - 1),
                                   LAMBDA cs : With(recursive.ok, cs))))

\* parse_query building a chain of UNIONs that leans to the left
parse_query_left(P, d) ==
    IF d = 0 THEN Diverged(P)
    ELSE LET c == current(P)
         IN  IF IsSome(c) /\ Unwrap(c).kind = "With"
             THEN Try(parse_with(P, d - 1),
                      LAMBDA with :
                          MapOk(parse_query(with.P, d - 1),
                                LAMBDA q : QueryWith(with.val, q)))
             ELSE Try(parse_select(P, d - 1),
                      LAMBDA select :
                          LET union == try_consume(select.P, "Union")
                              all == try_consume(union.P, "All")
                          IN  IF union.ok
                              THEN MapOk(parse_query(all.P, d - 1),
                                         LAMBDA right :
                                             IF right.node = "Union"
                                             THEN QueryUnion(QueryUnion(QuerySelect(select.val),
                                                                        all.ok, right.left),
                                                             right.all, right.right)
                                             ELSE QueryUnion(QuerySelect(select.val), all.ok, right))
                              ELSE Ok(select.P, QuerySelect(select.val)))

\* Parser::parse_query
parse_query(P, d) ==
    IF d = 0 THEN Diverged(P)
    ELSE LET c == current(P)
         IN  IF IsSome(c) /\ Unwrap(c).kind = "With"
             THEN Try(parse_with(P, d - 1),
                      LAMBDA with :
                          MapOk(parse_query(with.P, d - 1),
                                LAMBDA q : QueryWith(with.val, q)))
             ELSE Try(parse_select(P, d - 1),
                      LAMBDA select :
                          LET union == try_consume(select.P, "Union")
                              all == try_consume(union.P, "All")
                          IN  IF union.ok
                              THEN MapOk(parse_query(all.P, d - 1),
                                         LAMBDA right :
                                             QueryUnion(QuerySelect(select.val), all.ok, right))
                              ELSE Ok(select.P, QuerySelect(select.val)))

\* parse_statement: the WITH attempt; "Skipped" when the first token is not WITH
with_attempt(P, d) ==
    LET c == current(P)
    IN  IF ~(IsSome(c) /\ Unwrap(c).kind = "With")
        THEN [st |-> "Skipped", P |-> P, val |-> None]
        ELSE Try(parse_with(P, d),
                 LAMBDA with :
                     MapOk(parse_query(with.P, d),
                           LAMBDA q : StatementQuery(QueryWith(with.val, q))))

\* the expectations for the other statement types tracked where the furthest
\* failure was tracked
phantom_expectations_at_furthest(P) ==
    LET c == current(P)
        token == Unwrap(c)
        at == IF IsSome(P.bt) THEN Unwrap(P.bt).furthest_pos ELSE token.start
        P1 == track(P, at, <<"I","N","S","E","R","T">>, Some(token.text))
        P2 == track(P1, at, <<"U","P","D","A","T","E">>, Some(token.text))
        P3 == track(P2, at, <<"D","E","L","E","T","E">>, Some(token.text))
        P4 == track(P3, at, <<"W","I","T","H">>, Some(token.text))
    IN  IF IsSome(c) THEN P4 ELSE P

\* a parse_statement that tracks nothing for the other statement types
phantom_expectations_skipped(P) == P

\* parse_statement: the expectations tracked for the other statement types
phantom_expectations(P) ==
    LET c == current(P)
        token == Unwrap(c)
        P1 == track(P, token.start, <<"I","N","S","E","R","T">>, Some(token.text))
        P2 == track(P1, token.start, <<"U","P","D","A","T","E">>, Some(token.text))
        P3 == track(P2, token.start, <<"D","E","L","E","T","E">>, Some(token.text))
        P4 == track(P3, token.start, <<"W","I","T","H">>, Some(token.text))
    IN  IF IsSome(c) THEN P4 ELSE P

\* a rewind that also starts a new tracker for the next attempt
rewind_and_reset(P, start_pos) == [P EXCEPT !.pos = start_pos, !.bt = None]

\* an attempt that starts where the previous attempt left the cursor
rewind_skipped(P, start_pos) == P

\* self.pos = start_pos
rewind(P, start_pos) == [P EXCEPT !.pos = start_pos]

\* a parse_statement that returns the error of the failed SELECT attempt
parse_statement_attempt_error(P, d) ==
    LET start_pos == P.pos
    IN  OrElse(with_attempt(P, d),
               LAMBDA first :
                   OrElse(MapOk(parse_select(rewind(first.P, start_pos), d),
                                LAMBDA stmt : StatementQuery(QuerySelect(stmt))),
                          LAMBDA second :
                              [second EXCEPT !.P = phantom_expectations(rewind(second.P, start_pos))]))

\* a parse_statement whose second alternative is parse_query
parse_statement_query(P, d) ==
    LET start_pos == P.pos
    IN  OrElse(with_attempt(P, d),
               LAMBDA first :
                   OrElse(MapOk(parse_query(rewind(first.P, start_pos), d),
                                LAMBDA q : StatementQuery(q)),
                          LAMBDA second :
                              Err(phantom_expectations(rewind(second.P, start_pos)), None)))

\* a parse_statement that accepts a statement only at the end of the input
parse_statement_to_eof(P, d) ==
    LET start_pos == P.pos
    IN  OrElse(with_attempt(P, d),
               LAMBDA first :
                   OrElse(Try(parse_select(rewind(first.P, start_pos), d),
                              LAMBDA stmt :
                                  IF Unwrap(current(stmt.P)).kind = "Eof"
                                  THEN Ok(stmt.P, StatementQuery(QuerySelect(stmt.val)))
                                  ELSE Err(stmt.P, None)),
                          LAMBDA second :
                              Err(phantom_expectations(rewind(second.P, start_pos)), None)))

\* Parser::parse_statement
parse_statement(P, d) ==
    LET start_pos == P.pos
    IN  OrElse(with_attempt(P, d),
               LAMBDA first :
                   OrElse(MapOk(parse_select(rewind(first.P, start_pos), d),
                                LAMBDA stmt : StatementQuery(QuerySelect(stmt))),
                          LAMBDA second :
                              Err(phantom_expectations(rewind(second.P, start_pos)), None)))

(***************************************************************************)
(* parse_sql: tokenize the text, then parse_statement on a new parser with *)
(* a new Backtrace.                                                        *)
(***************************************************************************)
\* The call depth given to parse_statement for a sequence of n tokens is
\* DepthPerToken * n + DepthBase.
DepthPerToken == 2

DepthBase == 6

Depth(toks) == DepthPerToken * Len(toks) + DepthBase

\* the words of a text: its maximal runs of characters other than the space
Split(text) ==
    LET starts == SortedSeq({i \in 1..Len(text) :
                                text[i] # " " /\ (i = 1 \/ text[i - 1] = " ")})
    IN  [k \in 1..Len(starts) |->
            SubSeq(text, starts[k],
                   SetMin({j \in starts[k]..Len(text) :
                              j = Len(text) \/ text[j + 1] = " "}))]

Unsplit(ws) == Join(ws, <<" ">>)

\* The source texts parsed: every sequence of at most MaxWords core words, and
\* every seed query with one word replaced, removed, or the text cut short.
MaxWords == 3

CoreWords == {
    <<"S","E","L","E","C","T">>,
    <<"*">>,
    <<"F","R","O","M">>,
    <<"t">>,
    <<"W","I","T","H">>,
    <<"(">>,
    <<")">>,
    <<"1">>,
    <<"+">>,
    <<"s","e","l","c","t">>,
    <<"A","S">>,
    <<",">>,
    <<"é">>
}

EditWords == {
    <<"S","E","L","E","C","T">>,
    <<"F","R","O","M">>,
    <<"W","H","E","R","E">>,
    <<"W","I","T","H">>,
    <<"R","E","C","U","R","S","I","V","E">>,
    <<"A","S">>,
    <<"U","N","I","O","N">>,
    <<"A","L","L">>,
    <<"A","N","D">>,
    <<"I","N","S","E","R","T">>,
    <<"U","P","D","A","T","E">>,
    <<"D","E","L","E","T","E">>,
    <<"t">>,
    <<"f","o","r","m">>,
    <<"w","h","e","r">>,
    <<"W","h","r","e","x">>,
    <<"o","t","h","e","r">>,
    <<"s","e","l","c","t">>,
    <<"s","e","l">>,
    <<"1">>,
    <<"1",".","5">>,
    <<"'","s","'">>,
    <<"*">>,
    <<"+">>,
    <<"(">>,
    <<")">>,
    <<",">>,
    <<";">>,
    <<"?">>,
    <<"\n">>,
    <<"é","é","é">>,
    <<"'","é","'">>
}

Seeds == {
    \* SELECT * FROM users
    <<"S","E","L","E","C","T"," ","*"," ","F","R","O","M"," ","u","s","e","r","s">>,
    \* SELECT a , b FROM t WHERE a > 1
    <<"S","E","L","E","C","T"," ","a"," ",","," ","b"," ","F","R","O","M"," ","t"," ","W","H","E","R","E"," ","a"," ",">"," ","1">>,
    \* WITH RECURSIVE t ( n ) AS ( SELECT 1 ) SELECT * FROM t
    <<"W","I","T","H"," ","R","E","C","U","R","S","I","V","E"," ","t"," ","("," ","n"," ",")"," ","A","S"," ","("," ","S","E","L","E","C","T"," ","1"," ",")"," ","S","E","L","E","C","T"," ","*"," ","F","R","O","M"," ","t">>,
    \* WITH t AS ( SELECT 1 UNION ALL SELECT 2 ) SELECT * FROM t
    <<"W","I","T","H"," ","t"," ","A","S"," ","("," ","S","E","L","E","C","T"," ","1"," ","U","N","I","O","N"," ","A","L","L"," ","S","E","L","E","C","T"," ","2"," ",")"," ","S","E","L","E","C","T"," ","*"," ","F","R","O","M"," ","t">>,
    \* SELECT a + 2 * ( b - 'x' ) FROM t u
    <<"S","E","L","E","C","T"," ","a"," ","+"," ","2"," ","*"," ","("," ","b"," ","-"," ","'","x","'"," ",")"," ","F","R","O","M"," ","t"," ","u">>,
    \* SELCT * FORM users
    <<"S","E","L","C","T"," ","*"," ","F","O","R","M"," ","u","s","e","r","s">>,
    \* SELECT * FROM users WHEER age > 18
    <<"S","E","L","E","C","T"," ","*"," ","F","R","O","M"," ","u","s","e","r","s"," ","W","H","E","E","R"," ","a","g","e"," ",">"," ","1","8">>,
    \* SELECT a FROM t AS u WHERE a = 1 AND b < 2 OR c
    <<"S","E","L","E","C","T"," ","a"," ","F","R","O","M"," ","t"," ","A","S"," ","u"," ","W","H","E","R","E"," ","a"," ","="," ","1"," ","A","N","D"," ","b"," ","<"," ","2"," ","O","R"," ","c">>,
    \* SELECT 99999999999999999999 FROM t
    <<"S","E","L","E","C","T"," ","9","9","9","9","9","9","9","9","9","9","9","9","9","9","9","9","9","9","9","9"," ","F","R","O","M"," ","t">>,
    \* SELECT a \n FROM t \n WHERE ( a
    <<"S","E","L","E","C","T"," ","a"," ","\n"," ","F","R","O","M"," ","t"," ","\n"," ","W","H","E","R","E"," ","("," ","a">>,
    \* WITH a AS ( SELECT 1 ) , b ( x , y ) AS ( SELECT 2 ) SELECT * FROM a
    <<"W","I","T","H"," ","a"," ","A","S"," ","("," ","S","E","L","E","C","T"," ","1"," ",")"," ",","," ","b"," ","("," ","x"," ",","," ","y"," ",")"," ","A","S"," ","("," ","S","E","L","E","C","T"," ","2"," ",")"," ","S","E","L","E","C","T"," ","*"," ","F","R","O","M"," ","a">>,
    \* WITH t AS SELECT 1 SELECT * FROM t
    <<"W","I","T","H"," ","t"," ","A","S"," ","S","E","L","E","C","T"," ","1"," ","S","E","L","E","C","T"," ","*"," ","F","R","O","M"," ","t">>,
    \* SELECT a FROM t WHERE b
    <<"S","E","L","E","C","T"," ","a"," ","F","R","O","M"," ","t"," ","W","H","E","R","E"," ","b">>,
    \* SELECT * \n FROM users \n WHEER age > 18
    <<"S","E","L","E","C","T"," ","*"," ","\n"," ","F","R","O","M"," ","u","s","e","r","s"," ","\n"," ","W","H","E","E","R"," ","a","g","e"," ",">"," ","1","8">>
}

\* texts of test_all_supported_keywords that do not end where their statement ends
Examples == {
    \* SELECT * FROM t1, t2
    <<"S","E","L","E","C","T"," ","*"," ","F","R","O","M"," ","t","1",","," ","t","2">>,
    \* SELECT COUNT(*) FROM t
    <<"S","E","L","E","C","T"," ","C","O","U","N","T","(","*",")"," ","F","R","O","M"," ","t">>,
    \* SELECT 1 UNION SELECT 2
    <<"S","E","L","E","C","T"," ","1"," ","U","N","I","O","N"," ","S","E","L","E","C","T"," ","2">>,
    \* SELECT 1 UNION ALL SELECT 2
    <<"S","E","L","E","C","T"," ","1"," ","U","N","I","O","N"," ","A","L","L"," ","S","E","L","E","C","T"," ","2">>
}

EditsOf(ws) ==
    {ws}
        \cup {[ws EXCEPT ![i] = w] : i \in 1..Len(ws), w \in EditWords}
        \cup {SubSeq(ws, 1, i - 1) \o SubSeq(ws, i + 1, Len(ws)) : i \in 1..Len(ws)}
        \cup {SubSeq(ws, 1, i) : i \in 1..Len(ws)}

Sources ==
    {Unsplit(ws) : ws \in UNION {[1..n -> CoreWords] : n \in 0..MaxWords}}
        \cup {Unsplit(ws) : ws \in UNION {EditsOf(Split(seed)) : seed \in Seeds}}
        \cup Examples

Init ==
    /\ phase = "source"
    /\ input \in Sources
    /\ tokens = <<>>
    /\ pos = 0
    /\ bt = None
    /\ calls = <<>>
    /\ raised = <<>>
    /\ out = None
    /\ strsim = "0.11"

\* let tokens = tokenize(sql)
Tokenize ==
    /\ phase = "source"
    /\ tokens' = tokenize(input)
    /\ phase' = "tokens"
    /\ UNCHANGED <<input, pos, bt, calls, raised, out, strsim>>

\* what the caller gets from a result: the value, the ParseError, or nothing
\* when the call did not return (a panic, or a call depth used up)
Outcome(r) ==
    IF r.P.panic THEN [st |-> "Panic", val |-> None]
    ELSE IF r.st = "Err" THEN [st |-> "Err", val |-> ParseErrorOf(r)]
    ELSE [st |-> r.st, val |-> r.val]

\* Parser::new(&tokens, &backtrace, sql).parse_statement()
ParseStatement ==
    /\ phase = "tokens"
    /\ LET r == parse_statement(Parser(tokens, input), Depth(tokens))
       IN  /\ out' = Outcome(r)
           /\ pos' = r.P.pos
           /\ bt' = r.P.bt
           /\ calls' = r.P.log
           /\ raised' = r.P.raised
    /\ phase' = "parsed"
    /\ UNCHANGED <<input, tokens, strsim>>

Next == Tokenize \/ ParseStatement

Spec == Init /\ [][Next]_vars

(***************************************************************************)
(* The tracker driven directly, as the unit tests of error.rs drive it:    *)
(* any sequence of track_error calls, then get_error.                      *)
(***************************************************************************)
MaxCalls == 3

TrackInput == <<"a","b","\n","c","d"," ","e","f">>

TrackPositions == {0, 3, 6}

TrackLabels == {<<"F","R","O","M">>, <<"W","H","E","R","E">>, <<"I","N","S","E","R","T">>}

TrackFound == {None, Some(<<"F","O","R","M">>)}

InitTracker ==
    /\ phase = "tracking"
    /\ input = TrackInput
    /\ tokens = <<>>
    /\ pos = 0
    /\ bt = None
    /\ calls = <<>>
    /\ raised = <<>>
    /\ out = None
    /\ strsim = "0.11"

TrackError(p, expected, found) ==
    /\ phase = "tracking"
    /\ Len(calls) < MaxCalls
    /\ bt' = track_error(bt, p, expected, found, input)
    /\ calls' = Append(calls, [pos |-> p, expected |-> expected, found |-> found])
    /\ UNCHANGED <<phase, input, tokens, pos, raised, out, strsim>>

GetError ==
    /\ phase = "tracking"
    /\ out' = Some(get_error(bt, input))
    /\ phase' = "finalized"
    /\ UNCHANGED <<input, tokens, pos, bt, calls, raised, strsim>>

NextTracker ==
    \/ \E p \in TrackPositions, expected \in TrackLabels, found \in TrackFound :
           TrackError(p, expected, found)
    \/ GetError

SpecTracker == InitTracker /\ [][NextTracker]_vars


\* What the history says: the greatest position passed to track_error, the
\* calls made at it, and the labels of those calls in first-seen order.
TrackedPositions == {calls[i].pos : i \in 1..Len(calls)}

MaxTracked == SetMax(TrackedPositions)

CallsAtMax == SelectSeq(calls, LAMBDA c : c.pos = MaxTracked)

RECURSIVE FirstSeen(_, _)
FirstSeen(cs, seen) ==
    IF cs = <<>> THEN seen
    ELSE FirstSeen(Tail(cs),
                   IF Contains(seen, Head(cs).expected) THEN seen
                   ELSE Append(seen, Head(cs).expected))

LabelsAtMax == FirstSeen(CallsAtMax, <<>>)

EndsWith(s, p) == Len(p) <= Len(s) /\ SubSeq(s, Len(s) - Len(p) + 1, Len(s)) = p

\* C2 (furthest wins): after any sequence of track_error calls the tracker's
\* furthest_pos is the greatest position passed to any of them, every label it
\* holds was tracked at that position, and get_error reports the line and column
\* of that position and names only labels tracked at it.
FurthestWins ==
    calls # <<>> =>
        /\ IsSome(bt)
        /\ Unwrap(bt).furthest_pos = MaxTracked
        /\ \A i \in 1..Len(Unwrap(bt).expected) :
               \E j \in 1..Len(calls) :
                   calls[j].pos = MaxTracked /\ calls[j].expected = Unwrap(bt).expected[i]
        /\ phase = "finalized" =>
               /\ <<Unwrap(out).line, Unwrap(out).column>>
                      = position_to_line_col(input, MaxTracked)
               /\ \E L \in TrackLabels : ContainsSub(Unwrap(out).message, L)
               /\ \A L \in TrackLabels :
                      ContainsSub(Unwrap(out).message, L) =>
                          \E j \in 1..Len(calls) :
                              calls[j].pos = MaxTracked /\ calls[j].expected = L

\* C2 witness: a smaller position was tracked after a greater one, with a
\* different label, and get_error has run.
FurthestWinsWitness ==
    /\ phase = "finalized"
    /\ \E i, j \in 1..Len(calls) :
           i < j /\ calls[i].pos > calls[j].pos /\ calls[i].expected # calls[j].expected

\* C3 (same-position merge): the expected list is exactly the distinct labels
\* tracked at the final furthest position, each once, in first-tracked order,
\* and the message of get_error lists them in that order.
SamePositionMerge ==
    calls # <<>> =>
        /\ IsSome(bt)
        /\ Unwrap(bt).expected = LabelsAtMax
        /\ phase = "finalized" =>
               ContainsSub(Unwrap(out).message, Join(LabelsAtMax, <<",", " ">>))

\* C3 witness: at the furthest position two distinct labels were tracked and
\* the first of them a second time after the other; get_error has run.
SamePositionMergeWitness ==
    /\ phase = "finalized"
    /\ Len(LabelsAtMax) = 2
    /\ Len(CallsAtMax) = 3
    /\ CallsAtMax[3].expected = CallsAtMax[1].expected

\* the step is a track_error call
TrackStep == Len(calls') = Len(calls) + 1

\* the call made by the step
Tracked == calls'[Len(calls')]

\* C31 (smaller position is a no-op): a track_error call whose position is
\* smaller than the tracker's furthest_pos leaves furthest_pos, the expected
\* list, the found text, the line and the column as they were, so the
\* diagnostic get_error builds is the same before and after the call.
SmallerPositionNoOp ==
    [][(TrackStep /\ IsSome(bt) /\ Tracked.pos < Unwrap(bt).furthest_pos) =>
           /\ bt' = bt
           /\ get_error(bt', input) = get_error(bt, input)]_vars

\* C31 witness: the last call was made at a position smaller than the
\* furthest one, with a label the tracker does not hold and another found text.
SmallerPositionNoOpWitness ==
    /\ Len(calls) >= 2
    /\ IsSome(bt)
    /\ calls[Len(calls)].pos < Unwrap(bt).furthest_pos
    /\ calls[Len(calls)].found # Unwrap(bt).found
    /\ ~Contains(Unwrap(bt).expected, calls[Len(calls)].expected)

\* C8 (message format): the message is "Expected X, found 'F'" when a found
\* text is recorded and "Expected X, reached end of input" when none is, X being
\* the label alone when there is one label and otherwise "one of: " followed by
\* the labels joined by ", " in insertion order.
MessageFormat ==
    (phase = "finalized" /\ calls # <<>>) =>
        LET msg == Unwrap(out).message
            found == CallsAtMax[1].found
            tail == IF IsSome(found)
                    THEN <<","," ","f","o","u","n","d"," ","'">> \o Unwrap(found) \o <<"'">>
                    ELSE <<","," ","r","e","a","c","h","e","d"," ","e","n","d"," ","o","f"," ","i","n","p","u","t">>
            head == <<"E","x","p","e","c","t","e","d"," ">>
            X == SubSeq(msg, Len(head) + 1, Len(msg) - Len(tail))
        IN  /\ StartsWith(msg, head)
            /\ EndsWith(msg, tail)
            /\ Len(msg) >= Len(head) + Len(tail)
            /\ Len(LabelsAtMax) = 1 => X = LabelsAtMax[1]
            /\ Len(LabelsAtMax) # 1 =>
                   X = <<"o","n","e"," ","o","f",":"," ">> \o Join(LabelsAtMax, <<",", " ">>)

\* C8 witness: get_error ran on a tracker holding one label and no found text.
MessageFormatWitness ==
    /\ phase = "finalized"
    /\ calls # <<>>
    /\ Len(LabelsAtMax) = 1
    /\ CallsAtMax[1].found = None
    /\ Len(calls) = MaxCalls

\* C17 (fallback): get_error on a tracker on which nothing was tracked returns
\* the diagnostic "Unexpected error" at line 1, column 1 with no suggestion
\* and no context, and the tracker still holds nothing afterwards.
FallbackDiagnostic ==
    (phase = "finalized" /\ calls = <<>>) =>
        /\ out = Some([message |-> <<"U","n","e","x","p","e","c","t","e","d"," ","e","r","r","o","r">>,
                       line |-> 1,
                       column |-> 1,
                       suggestion |-> None,
                       context |-> None])
        /\ bt = None

\* C17 witness: get_error has run without any track_error call before it.
FallbackDiagnosticWitness ==
    /\ phase = "finalized"
    /\ calls = <<>>
    /\ IsSome(out)
    /\ Unwrap(out).line = 1


(***************************************************************************)
(* suggest_keyword applied to a found text, as tests::test_suggestion does *)
(***************************************************************************)
MaxSuggestLen == 2

SuggestAlphabet == {"O", "R", "N", "A", "S", "D", "B", "Y", "o", "x"}

SuggestExamples == {<<"S","E","L","C","T">>, <<"F","O","R","M">>, <<"W","H","E","E","R">>, <<"x","y","z">>}

SuggestTexts ==
    SuggestExamples
        \cup UNION {[1..n -> SuggestAlphabet] : n \in 1..MaxSuggestLen}

InitSuggest ==
    /\ phase = "found"
    /\ input \in SuggestTexts
    /\ tokens = <<>>
    /\ pos = 0
    /\ bt = None
    /\ calls = <<>>
    /\ raised = <<>>
    /\ out = None
    /\ strsim \in {"0.10", "0.11"}

Suggest ==
    /\ phase = "found"
    /\ out' = suggest_keyword(input)
    /\ phase' = "suggested"
    /\ UNCHANGED <<input, tokens, pos, bt, calls, raised, strsim>>

NextSuggest == Suggest

SpecSuggest == InitSuggest /\ [][NextSuggest]_vars

\* the vocabulary entries no other entry scores above
BestKeywords ==
    LET sc == Scores(input)
    IN  {k \in 1..Len(KEYWORDS) : \A j \in 1..Len(KEYWORDS) : ~FracGt(sc[j], sc[k])}

BestExceedsThreshold == \E k \in BestKeywords : FracGt(Scores(input)[k], Threshold)

SuggestExamplesHold ==
    /\ input = <<"S","E","L","C","T">> => out = Some(<<"S","E","L","E","C","T">>)
    /\ input = <<"F","O","R","M">> => out = Some(<<"F","R","O","M">>)
    /\ input = <<"W","H","E","E","R">> => out = Some(<<"W","H","E","R","E">>)
    /\ input = <<"x","y","z">> => out = None

\* C10 as stated: the suggestion is the best-scoring keyword, given only if its
\* score exceeds 0.8 and no other keyword attains the same score; otherwise none.
SuggestionStrictMaximum ==
    phase = "suggested" =>
        /\ out = IF BestExceedsThreshold /\ Cardinality(BestKeywords) = 1
                 THEN Some(KEYWORDS[SetMax(BestKeywords)]) ELSE None
        /\ SuggestExamplesHold

\* C10 amended: the suggestion is given exactly when the best score exceeds
\* 0.8, and it is the best-scoring keyword, the one listed last in the
\* vocabulary when several keywords attain the best score; SELCT, FORM and
\* WHEER yield SELECT, FROM and WHERE, and xyz yields none.
SuggestionLastMaximum ==
    phase = "suggested" =>
        /\ out = IF BestExceedsThreshold
                 THEN Some(KEYWORDS[SetMax(BestKeywords)]) ELSE None
        /\ SuggestExamplesHold

\* C10 witness: "O" scores the same against OR and ON, and ON is suggested.
SuggestionTieWitness ==
    /\ phase = "suggested"
    /\ input = <<"O">>
    /\ Cardinality(BestKeywords) = 2
    /\ out = Some(<<"O", "N">>)


(***************************************************************************)
(* parse_expr applied to an expression text, as the unit tests of expr.rs  *)
(* apply it: tokenize, Parser::new, parse_expr.                            *)
(***************************************************************************)
\* The expression texts parsed: every chain a op b op c ... of at most MaxOps
\* operators, every sequence of at most MaxExprWords free words, and the
\* expressions of the unit tests.
MaxOps == 3

MaxExprWords == 4

Operators == {
    <<"O","R">>, <<"A","N","D">>, <<"=">>, <<"<",">">>, <<"<">>, <<">">>,
    <<"<","=">>, <<">","=">>, <<"+">>, <<"-">>, <<"*">>, <<"/">>
}

Operands == <<<<"a">>, <<"b">>, <<"c">>, <<"d">>, <<"e">>>>

RECURSIVE Chain(_, _)
Chain(ops, n) ==
    IF n = 0 THEN <<Operands[1]>>
    ELSE Chain(ops, n - 1) \o <<ops[n], Operands[n + 1]>>

ExprWords == {<<"a">>, <<"1">>, <<"+">>, <<"*">>, <<"-">>, <<"(">>, <<")">>, <<"A","N","D">>}

ExprSeeds == {
    \* 2 + 3 * 4
    <<"2"," ","+"," ","3"," ","*"," ","4">>,
    \* a > 18 AND s = 'x' OR d = 1
    <<"a"," ",">"," ","1","8"," ","A","N","D"," ","s"," ","="," ","'","x","'"," ","O","R"," ","d"," ","="," ","1">>,
    \* a - b - c
    <<"a"," ","-"," ","b"," ","-"," ","c">>,
    \* ( a + b ) * ( c - d ) - e
    <<"("," ","a"," ","+"," ","b"," ",")"," ","*"," ","("," ","c"," ","-"," ","d"," ",")"," ","-"," ","e">>
}

\* the parenthesized expressions parsed: what stands before the opening
\* parenthesis, what stands after it, and what follows that
ParenPrefixes == {<<>>, <<<<"a">>, <<"*">>>>, <<<<"a">>, <<"A","N","D">>>>}

ParenInners == {
    <<<<"b">>>>,
    <<<<"b">>, <<"+">>, <<"c">>>>,
    <<<<"b">>, <<"O","R">>, <<"c">>, <<"*">>, <<"2">>>>,
    <<<<"(">>, <<"1">>, <<")">>>>
}

ParenFollows == {
    <<<<")">>>>,
    <<>>,
    <<<<"a">>>>,
    <<<<"(">>>>,
    <<<<",">>>>,
    <<<<")">>, <<"+">>, <<"d">>>>,
    <<<<")">>, <<")">>>>
}

ParenTexts ==
    {Unsplit(prefix \o <<<<"(">>>> \o inner \o follow) :
        prefix \in ParenPrefixes, inner \in ParenInners, follow \in ParenFollows}

ExprSources ==
    {Unsplit(Chain(ops, Len(ops))) : ops \in UNION {[1..n -> Operators] : n \in 0..MaxOps}}
        \cup {Unsplit(ws) : ws \in UNION {[1..n -> ExprWords] : n \in 0..MaxExprWords}}
        \cup ExprSeeds
        \cup ParenTexts

InitExpr ==
    /\ phase = "source"
    /\ input \in ExprSources
    /\ tokens = <<>>
    /\ pos = 0
    /\ bt = None
    /\ calls = <<>>
    /\ raised = <<>>
    /\ out = None
    /\ strsim = "0.11"

\* Parser::new(&tokens, &backtrace, input).parse_expr()
ParseExpr ==
    /\ phase = "tokens"
    /\ LET r == parse_expr(Parser(tokens, input), Depth(tokens))
       IN  /\ out' = Outcome(r)
           /\ pos' = r.P.pos
           /\ bt' = r.P.bt
           /\ calls' = r.P.log
           /\ raised' = r.P.raised
    /\ phase' = "parsed"
    /\ UNCHANGED <<input, tokens, strsim>>

NextExpr == Tokenize \/ ParseExpr

SpecExpr == InitExpr /\ [][NextExpr]_vars


(***************************************************************************)
(* parse_sql applied to well-formed simple queries, as the property tests  *)
(* generate them: SELECT col FROM table, SELECT c1, ..., cn FROM table and *)
(* SELECT col FROM table WHERE x op v.                                     *)
(***************************************************************************)
MaxColumns == 3

\* identifiers that are no keywords, among them ones the typo checks look for
SimpleIdents == {
    <<"c">>,
    <<"f","o","r","m">>,
    <<"w","h","e","r">>,
    <<"s","e","l","x">>,
    <<"o","t","h","e","r">>
}

ComparisonOps == {<<"=">>, <<">">>, <<"<">>, <<">","=">>, <<"<","=">>, <<"!","=">>}

\* non-negative integers, the greatest 64-bit one and the one after it among
\* them, and quoted strings
SimpleLiterals == {
    <<"0">>,
    <<"4","2">>,
    <<"9","2","2","3","3","7","2","0","3","6","8","5","4","7","7","5","8","0","7">>,
    <<"9","2","2","3","3","7","2","0","3","6","8","5","4","7","7","5","8","0","8">>,
    <<"'","a"," ","b","'">>,
    <<"'","'">>
}

SelectFrom(cols, table) ==
    <<"S","E","L","E","C","T"," ">> \o Join(cols, <<",", " ">>)
        \o <<" ","F","R","O","M"," ">> \o table

SelectFromWhere(col, table, x, op, v) ==
    SelectFrom(<<col>>, table) \o <<" ","W","H","E","R","E"," ">> \o x \o <<" ">> \o op \o <<" ">> \o v

SimpleQueries ==
    {SelectFrom(cols, table) :
         cols \in UNION {[1..n -> SimpleIdents] : n \in 1..MaxColumns}, table \in SimpleIdents}
        \cup UNION {{SelectFromWhere(col, table, x, op, v) : col \in SimpleIdents, x \in SimpleIdents} :
                        table \in SimpleIdents, op \in ComparisonOps, v \in SimpleLiterals}

InitSimple ==
    /\ phase = "source"
    /\ input \in SimpleQueries
    /\ tokens = <<>>
    /\ pos = 0
    /\ bt = None
    /\ calls = <<>>
    /\ raised = <<>>
    /\ out = None
    /\ strsim = "0.11"

SpecSimple == InitSimple /\ [][Next]_vars


(***************************************************************************)
(* tokenize applied to any text, as test_tokenizer_never_panics applies    *)
(* it: every text of at most MaxTextLen characters of LexAlphabet.         *)
(***************************************************************************)
MaxTextLen == 4

LexAlphabet == {"a", "s", "1", "'", "é", " ", "-", "\n", "<", "=", "."}

InitLex ==
    /\ phase = "source"
    /\ input \in UNION {[1..n -> LexAlphabet] : n \in 0..MaxTextLen}
    /\ tokens = <<>>
    /\ pos = 0
    /\ bt = None
    /\ calls = <<>>
    /\ raised = <<>>
    /\ out = None
    /\ strsim = "0.11"

NextLex == Tokenize

SpecLex == InitLex /\ [][NextLex]_vars

\* the byte offset at which character i of the text begins
ByteOffset(text, i) == ByteLen(SubSeq(text, 1, i - 1))

\* &text[s..e]: the characters that begin at the byte offsets s .. e - 1
ByteSlice(text, s, e) ==
    SelectSeq([i \in 1..Len(text) |-> [c |-> text[i], at |-> ByteOffset(text, i)]],
              LAMBDA x : s <= x.at /\ x.at < e)

\* character i of the input lies inside the span of a token
Covered(i) ==
    \E k \in 1..Len(tokens) :
        tokens[k].start <= ByteOffset(input, i) /\ ByteOffset(input, i) < tokens[k].end

\* the input holds no quote and no comment
NoQuoteNoComment ==
    /\ \A i \in 1..Len(input) : input[i] # "'"
    /\ \A i \in 1..(Len(input) - 1) : ~(input[i] = "-" /\ input[i + 1] = "-")

\* C18 (Eof sentinel): tokenize returns for every text; the tokens end with one
\* Eof token of empty text and span [len, len), len the length of the text in
\* bytes, and hold no other Eof token; a character no pattern matches yields
\* no token and does not end the tokenization: outside quotes and comments
\* every letter, digit and operator character lies in a token also after such
\* a character, and no unrecognized or whitespace character does.
EofSentinel ==
    phase = "tokens" =>
        /\ Len(tokens) >= 1
        /\ tokens[Len(tokens)] = Token(<<>>, "Eof", ByteLen(input), ByteLen(input))
        /\ \A k \in 1..(Len(tokens) - 1) : tokens[k].kind # "Eof"
        /\ \A i \in 1..Len(input) :
               (input[i] = "é" /\ Covered(i)) =>
                   \E k \in 1..Len(tokens) :
                       /\ tokens[k].kind = "String"
                       /\ tokens[k].start < ByteOffset(input, i)
                       /\ ByteOffset(input, i) < tokens[k].end
        /\ NoQuoteNoComment =>
               \A i \in 1..Len(input) :
                   /\ input[i] \in IdentPart \cup {"<", "=", "-"} => Covered(i)
                   /\ input[i] \in Whitespace \cup {"é"} => ~Covered(i)

\* C18 witness: a text with an unrecognized character before and after a
\* word has been tokenized to the word and the Eof token.
EofSentinelWitness ==
    /\ phase = "tokens"
    /\ input = <<"é", "a", "s", "é">>
    /\ Len(tokens) = 2
    /\ tokens[1].kind = "As"
    /\ tokens[2].start = 6

\* C19 (spans): for every token but the Eof token the text of the token is the
\* part of the source at its span, the span is not empty, and the span of each
\* token starts where the span of the token before it ends or later.
SpansMatchText ==
    phase = "tokens" =>
        /\ \A k \in 1..(Len(tokens) - 1) :
               /\ tokens[k].start < tokens[k].end
               /\ tokens[k].end <= ByteLen(input)
               /\ [i \in 1..Len(ByteSlice(input, tokens[k].start, tokens[k].end)) |->
                      ByteSlice(input, tokens[k].start, tokens[k].end)[i].c] = tokens[k].text
               /\ ByteLen(tokens[k].text) = tokens[k].end - tokens[k].start
        /\ \A k \in 1..(Len(tokens) - 2) : tokens[k].end <= tokens[k + 1].start

\* C19 witness: a string token that holds a two-byte character is followed
\* by another token.
SpansMatchTextWitness ==
    /\ phase = "tokens"
    /\ Len(tokens) = 3
    /\ tokens[1].kind = "String"
    /\ Contains(tokens[1].text, "é")
    /\ tokens[1].end = 4
    /\ tokens[2].start = 4


(***************************************************************************)
(* A caller that invokes parse_sql several times, one text after another.  *)
(* Each step is one whole invocation: tokenize, Backtrace::new,            *)
(* Parser::new, parse_statement.  out is the sequence of the texts parsed  *)
(* and what each invocation returned; tokens, pos, bt, calls and raised    *)
(* are what the last invocation left behind.                               *)
(***************************************************************************)
MaxParses == 3

RepeatTexts == {
    \* SELECT * FROM t
    <<"S","E","L","E","C","T"," ","*"," ","F","R","O","M"," ","t">>,
    \* SELECT * FROM
    <<"S","E","L","E","C","T"," ","*"," ","F","R","O","M">>,
    \* WITH t AS ( SELECT
    <<"W","I","T","H"," ","t"," ","A","S"," ","("," ","S","E","L","E","C","T">>,
    \* SELCT * FORM users
    <<"S","E","L","C","T"," ","*"," ","F","O","R","M"," ","u","s","e","r","s">>,
    \* SELECT a FROM t WHEER
    <<"S","E","L","E","C","T"," ","a"," ","F","R","O","M"," ","t"," ","W","H","E","E","R">>,
    \* )
    <<")">>
}

InitRepeat ==
    /\ phase = "idle"
    /\ input = <<>>
    /\ tokens = <<>>
    /\ pos = 0
    /\ bt = None
    /\ calls = <<>>
    /\ raised = <<>>
    /\ out = <<>>
    /\ strsim = "0.11"

\* parse_sql(sql)
ParseSql(sql) ==
    /\ phase = "idle"
    /\ Len(out) < MaxParses
    /\ input' = sql
    /\ tokens' = tokenize(sql)
    /\ LET r == parse_statement(Parser(tokenize(sql), sql), Depth(tokenize(sql)))
       IN  /\ out' = Append(out, [sql |-> sql, result |-> Outcome(r)])
           /\ pos' = r.P.pos
           /\ bt' = r.P.bt
           /\ calls' = r.P.log
           /\ raised' = r.P.raised
    /\ UNCHANGED <<phase, strsim>>

NextRepeat == \E sql \in RepeatTexts : ParseSql(sql)

SpecRepeat == InitRepeat /\ [][NextRepeat]_vars

DiagnosticAtFurthest ==
    (phase = "parsed" /\ out.st = "Err") =>
        /\ calls # <<>>
        /\ IsSome(bt)
        /\ Unwrap(bt).furthest_pos = MaxTracked
        /\ <<out.val.line, out.val.column>> = position_to_line_col(input, MaxTracked)

\* C4 witness: the WITH attempt tracked a failure past the start of the text,
\* after which the SELECT attempt and the other statement types were tracked
\* at the start.
DiagnosticAtFurthestWitness ==
    /\ phase = "parsed"
    /\ out.st = "Err"
    /\ tokens[1].kind = "With"
    /\ MaxTracked > 0
    /\ \E i, j \in 1..Len(calls) :
           /\ i < j
           /\ calls[i].pos = MaxTracked
           /\ calls[j].pos = 0
           /\ calls[j].expected = <<"S","E","L","E","C","T">>
    /\ calls[Len(calls)].pos = 0
    /\ out.val.column > 1

\* the token parse_primary had read when it built the error e: the token
\* before the cursor for a literal that failed to convert (the cursor had moved
\* past it), the token at the cursor otherwise
FailedToken(e) ==
    IF e.message \in {<<"I","n","v","a","l","i","d"," ","n","u","m","b","e","r">>,
                      <<"I","n","v","a","l","i","d"," ","f","l","o","a","t">>}
    THEN tokens[e.cursor]
    ELSE tokens[e.cursor + 1]

\* C5 as stated: every failure of parse_primary on a primary term is tracked
\* at the position of the token it failed on, so the tracker's furthest
\* position is at least that position when the error is built and when the
\* diagnostic of the statement is built.
PrimaryFailureTracked ==
    phase = "parsed" =>
        \A i \in 1..Len(raised) :
            /\ \E j \in 1..Len(calls) : calls[j].pos = FailedToken(raised[i]).start
            /\ IsSome(raised[i].bt)
            /\ Unwrap(raised[i].bt).furthest_pos >= FailedToken(raised[i]).start
            /\ IsSome(bt)
            /\ Unwrap(bt).furthest_pos >= FailedToken(raised[i]).start

\* the parse failed where the input ends: the furthest failure was tracked
\* with the cursor on the Eof token
FailedAtEnd ==
    /\ phase = "parsed"
    /\ out.st = "Err"
    /\ IsSome(bt)
    /\ Unwrap(bt).furthest_pos = tokens[Len(tokens)].start

\* C9 as stated: when the parse fails because the input ends where a token is
\* required, the diagnostic is "Expected X, reached end of input" and no found
\* text is recorded.
EndOfInputForm ==
    FailedAtEnd =>
        /\ Unwrap(bt).found = None
        /\ EndsWith(out.val.message,
                    <<","," ","r","e","a","c","h","e","d"," ","e","n","d"," ","o","f"," ","i","n","p","u","t">>)

\* the number of characters of text that begin before byte offset b
CharsBefore(text, b) ==
    Cardinality({i \in 1..Len(text) : ByteLen(SubSeq(text, 1, i - 1)) < b})

\* the line and column, counted in characters, of the character of text that
\* begins at byte offset b
LineColumnOf(text, b) ==
    LET n == CharsBefore(text, b)
        newlines == {i \in 1..n : text[i] = "\n"}
        line_start == IF newlines = {} THEN 0 ELSE SetMax(newlines)
    IN  <<1 + Cardinality(newlines), 1 + (n - line_start)>>

\* C11 as stated: the diagnostic of a failure at a token that starts at byte
\* offset p has line 1 + the number of newlines before the token and column
\* 1 + the number of characters between the start of that line and the token,
\* also when multi-byte characters stand before the token.
LineColumnByCharacter ==
    (phase = "parsed" /\ out.st = "Err" /\ IsSome(bt)) =>
        <<out.val.line, out.val.column>> = LineColumnOf(input, Unwrap(bt).furthest_pos)

\* the snippet for line k of the source with the caret under column col: the
\* line after its number, then a caret line indented like it
Snippet(line_text, k, col) ==
    LET number == to_string(k)
        first == <<" ", " ">> \o number \o <<" ", "|", " ">> \o line_text
        second == <<" ", " ">> \o Repeat(" ", Len(number)) \o <<" ", "|", " ">>
                      \o Repeat(" ", col - 1) \o <<"^">>
    IN  first \o <<"\n">> \o second

\* C12 as stated: for a tracked failure whose position lies on line k of the
\* source, the diagnostic has line = k and its context shows line k after its
\* line number and, on a second line, a caret under the failing column; on the
\* last line of a source of several lines the line is the number of lines and
\* the context is present.
ContextShowsFailingLine ==
    (phase = "parsed" /\ out.st = "Err" /\ IsSome(bt)) =>
        LET lc == LineColumnOf(input, Unwrap(bt).furthest_pos)
            k == lc[1]
            ls == lines(input)
        IN  k <= Len(ls) =>
                /\ out.val.line = k
                /\ out.val.context = Some(Snippet(ls[k], k, lc[2]))
                /\ (Len(ls) > 1 /\ k = Len(ls)) =>
                       (out.val.line = Len(ls) /\ out.val.context # None)

\* the number of parentheses open before token i
ParenDepth(i) ==
    Cardinality({j \in 1..(i - 1) : tokens[j].kind = "LeftParen"})
        - Cardinality({j \in 1..(i - 1) : tokens[j].kind = "RightParen"})

\* the token at which the query after the WITH header starts: the first SELECT
\* or WITH outside every parenthesis after the leading WITH
HeaderEnd ==
    SetMin({i \in 2..Len(tokens) :
               i = Len(tokens) \/ (ParenDepth(i) = 0 /\ tokens[i].kind \in {"Select", "With"})})

\* the tokens that name the CTEs of the header as written, in source order
CteNameIndexes ==
    SortedSeq({i \in 2..(HeaderEnd - 1) : ParenDepth(i) = 0 /\ tokens[i].kind = "Identifier"})

\* the column list written after the name at token i, if one was written
ColumnsWritten(i) ==
    IF tokens[i + 1].kind = "LeftParen"
    THEN LET close == SetMin({j \in (i + 2)..Len(tokens) :
                                 j = Len(tokens) \/ tokens[j].kind = "RightParen"})
             names == SelectSeq(SubSeq(tokens, i + 2, close - 1),
                                LAMBDA t : t.kind = "Identifier")
         IN  Some([k \in 1..Len(names) |-> names[k].text])
    ELSE None

\* C13 (WITH header): a text that starts with WITH and parses yields a With
\* node whose recursive flag is true exactly when RECURSIVE directly follows
\* WITH, whose ctes list is non-empty and holds the CTEs in source order, each
\* with its name and with a column list exactly when a parenthesized list was
\* written, holding its names in order;
\* WITH RECURSIVE t ( n ) AS ( SELECT 1 ) SELECT * FROM t gives recursive = true
\* and the one CTE t with columns [n].
WithHeaderStructure ==
    (phase = "parsed" /\ out.st = "Ok" /\ tokens[1].kind = "With") =>
        /\ out.val.query.node = "With"
        /\ LET with == out.val.query.with
           IN  /\ with.recursive = (tokens[2].kind = "Recursive")
               /\ with.ctes # <<>>
               /\ Len(with.ctes) = Len(CteNameIndexes)
               /\ \A k \in 1..Len(with.ctes) :
                      /\ with.ctes[k].name = tokens[CteNameIndexes[k]].text
                      /\ with.ctes[k].columns = ColumnsWritten(CteNameIndexes[k])
               /\ input = <<"W","I","T","H"," ","R","E","C","U","R","S","I","V","E"," ","t"," ","("," ","n"," ",")"," ","A","S"," ","("," ","S","E","L","E","C","T"," ","1"," ",")"," ","S","E","L","E","C","T"," ","*"," ","F","R","O","M"," ","t">> =>
                      /\ with.recursive
                      /\ Len(with.ctes) = 1
                      /\ with.ctes[1].name = <<"t">>
                      /\ with.ctes[1].columns = Some(<<<<"n">>>>)

\* C13 witness: a header of two CTEs has been parsed, the first written
\* without a column list and the second with a list of two names.
WithHeaderWitness ==
    /\ phase = "parsed"
    /\ out.st = "Ok"
    /\ tokens[1].kind = "With"
    /\ Len(out.val.query.with.ctes) = 2
    /\ out.val.query.with.ctes[1].columns = None
    /\ out.val.query.with.ctes[2].columns = Some(<<<<"x">>, <<"y">>>>)
    /\ out.val.query.with.ctes[1].name # out.val.query.with.ctes[2].name

\* the text begins with SELECT <column> FROM <table> and goes on with at least
\* one more token
GoodPrefix ==
    /\ Len(tokens) >= 6
    /\ tokens[1].kind = "Select"
    /\ tokens[1].start = 0
    /\ tokens[2].kind = "Identifier"
    /\ tokens[3].kind = "From"
    /\ tokens[4].kind = "Identifier"

\* C15 as stated: when the parse of a text that begins with a well-formed
\* SELECT <column> FROM <table> followed by further tokens fails, the
\* diagnostic is not at line 1, column 1: its line or its column is greater
\* than 1.
DiagnosticAfterGoodPrefix ==
    (phase = "parsed" /\ out.st = "Err" /\ GoodPrefix) =>
        (out.val.line > 1 \/ out.val.column > 1)

\* C16 (well-formed diagnostic): every ParseError parse returns has a line of
\* at least 1, a column of at least 1 and a message that is not empty.
ErrorWellFormed ==
    (phase = "parsed" /\ out.st = "Err") =>
        /\ out.val.line >= 1
        /\ out.val.column >= 1
        /\ Len(out.val.message) > 0

\* C16 witness: an error has been returned for a failure at the very start of
\* the text, where line and column are the least they can be.
ErrorWellFormedWitness ==
    /\ phase = "parsed"
    /\ out.st = "Err"
    /\ IsSome(bt)
    /\ Unwrap(bt).furthest_pos = 0
    /\ Len(input) > 0
    /\ out.val.line = 1
    /\ out.val.column = 1

(***************************************************************************)
(* Properties of the statement alternatives and of parse_select            *)
(***************************************************************************)
\* the first token of the statement, on which parse_statement records its
\* start position
StartToken == tokens[1]

\* call i of the tracker is the failure of a SELECT attempt on the first token
SelectAtStart(i) ==
    /\ calls[i].pos = StartToken.start
    /\ calls[i].expected = <<"S","E","L","E","C","T">>
    /\ calls[i].found = Some(StartToken.text)

\* the labels tracked for the statement types that have no parser
PhantomLabels ==
    <<<<"I","N","S","E","R","T">>, <<"U","P","D","A","T","E">>,
      <<"D","E","L","E","T","E">>, <<"W","I","T","H">>>>

\* the last four calls of the tracker are the phantom expectations, tracked in
\* their order at the first token
PhantomsLast ==
    /\ Len(calls) >= 4
    /\ \A k \in 1..4 :
           /\ calls[Len(calls) - 4 + k].pos = StartToken.start
           /\ calls[Len(calls) - 4 + k].expected = PhantomLabels[k]
           /\ calls[Len(calls) - 4 + k].found = Some(StartToken.text)

\* C21 (order of the alternatives): parse_statement returns a statement or a
\* diagnostic.  On a text that starts with WITH the WITH attempt runs first
\* and, when it succeeds, gives the result (a With query) without a SELECT
\* attempt; when it fails, the SELECT attempt follows it with the cursor back
\* on the first token, where it fails, and then the diagnostic is built with
\* the cursor on the first token again.  On any other text the SELECT attempt
\* on the first token gives the result or is followed by the diagnostic.
AlternativesInOrder ==
    phase = "parsed" =>
        /\ out.st \in {"Ok", "Err"}
        /\ (StartToken.kind = "With" /\ out.st = "Ok") =>
               /\ out.val.query.node = "With"
               /\ \A i \in 1..Len(calls) : ~SelectAtStart(i)
               /\ pos > 0
        /\ (StartToken.kind = "With" /\ out.st = "Err") =>
               /\ Len(calls) >= 5
               /\ SelectAtStart(Len(calls) - 4)
               /\ \A i \in 1..(Len(calls) - 5) : calls[i].pos > StartToken.start
               /\ PhantomsLast
               /\ pos = 0
        /\ (StartToken.kind # "With" /\ out.st = "Ok") =>
               /\ out.val.query.node = "Select"
               /\ \A i \in 1..Len(calls) : calls[i].expected # <<"W","I","T","H">>
               /\ pos > 0
        /\ (StartToken.kind # "With" /\ out.st = "Err") =>
               /\ PhantomsLast
               /\ pos = 0

\* C21 witness: the WITH attempt consumed tokens and tracked a failure inside
\* the header before it failed, and the SELECT attempt then failed on the
\* first token.
AlternativesInOrderWitness ==
    /\ phase = "parsed"
    /\ out.st = "Err"
    /\ StartToken.kind = "With"
    /\ Len(calls) >= 6
    /\ calls[1].pos > StartToken.start
    /\ SelectAtStart(Len(calls) - 4)


\* the token that starts at byte offset p
TokenAt(p) == CHOOSE t \in {tokens[k] : k \in 1..Len(tokens)} : t.start = p

\* call i of the tracker was made by parse_select on an identifier standing
\* where it looked for SELECT
IdentifierForSelect(i) ==
    /\ calls[i].expected = <<"S","E","L","E","C","T">>
    /\ TokenAt(calls[i].pos).kind = "Identifier"

\* the identifier text is one parse_select goes past: upper-cased it starts
\* with SEL and it is at least four bytes long
Lenient(text) ==
    StartsWith(to_uppercase(text), <<"S","E","L">>) /\ ByteLen(text) >= 4

\* C22 (no statement after a SELECT typo): when parse_select has met an
\* identifier where it looked for SELECT, at the start of the statement, of a
\* CTE body, of the query after a WITH header or after UNION, parse returns a
\* diagnostic, also when the identifier was accepted as a typo of SELECT and
\* every clause after it parsed; for SELCT * FROM users the diagnostic
\* suggests SELECT.
NoStatementAfterSelectTypo ==
    phase = "parsed" =>
        /\ (\E i \in 1..Len(calls) : IdentifierForSelect(i)) => out.st = "Err"
        /\ StartToken.kind = "Identifier" => out.st = "Err"
        /\ input = <<"S","E","L","C","T"," ","*"," ","F","R","O","M"," ","u","s","e","r","s">> =>
               /\ out.st = "Err"
               /\ out.val.suggestion = Some(<<"S","E","L","E","C","T">>)

\* C22 witness: the text is a typo of SELECT followed by a projection and a
\* FROM clause that parsed without any tracked failure, and a diagnostic was
\* returned: the tracker holds the SELECT expectation and the four phantom
\* expectations only.
NoStatementAfterSelectTypoWitness ==
    /\ phase = "parsed"
    /\ out.st = "Err"
    /\ Len(tokens) = 5
    /\ StartToken.kind = "Identifier"
    /\ Lenient(StartToken.text)
    /\ tokens[2].kind = "Star"
    /\ tokens[3].kind = "From"
    /\ tokens[4].kind = "Identifier"
    /\ Len(calls) = 5
    /\ IdentifierForSelect(1)

\* the positions past the first token at which a failure was met: the ones
\* tracked and the ones parse_primary built an error for
LaterFailures ==
    {calls[i].pos : i \in {j \in 1..Len(calls) : calls[j].pos > StartToken.start}}
        \cup {FailedToken(raised[i]).start : i \in 1..Len(raised)}

\* nothing was tracked or raised between the failure of the SELECT attempt on
\* the first token and the phantom expectations
FailedOnFirstToken ==
    /\ Len(calls) = 5
    /\ SelectAtStart(1)
    /\ PhantomsLast
    /\ raised = <<>>

PhantomsInMessage ==
    ContainsSub(out.val.message,
                <<"I","N","S","E","R","T",","," ","U","P","D","A","T","E",","," ",
                  "D","E","L","E","T","E",","," ","W","I","T","H",","," ","f","o","u","n","d">>)

\* call i of the tracker carries one of the phantom labels
PhantomCall(i) == \E k \in 1..4 : calls[i].expected = PhantomLabels[k]

\* C24 (phantom expectations): INSERT, UPDATE, DELETE and WITH are tracked
\* only when both attempts have failed, once each, after every other tracked
\* failure and at the first token of the statement; a text whose first token
\* is INSERT, UPDATE or DELETE is rejected; and the final message lists them
\* exactly when no failure was tracked beyond the first token.
PhantomExpectations ==
    phase = "parsed" =>
        /\ out.st = "Ok" => \A i \in 1..Len(calls) : ~PhantomCall(i)
        /\ out.st = "Err" =>
               /\ PhantomsLast
               /\ \A i \in 1..(Len(calls) - 4) : ~PhantomCall(i)
               /\ PhantomsInMessage <=> MaxTracked = StartToken.start
        /\ StartToken.kind \in {"Insert", "Update", "Delete"} => out.st = "Err"

\* C24 witness: the text starts with INSERT, it has been rejected, and the
\* message lists the phantom expectations after SELECT.
PhantomExpectationsWitness ==
    /\ phase = "parsed"
    /\ out.st = "Err"
    /\ StartToken.kind = "Insert"
    /\ Len(tokens) > 2
    /\ PhantomsInMessage
    /\ Unwrap(bt).expected[1] = <<"S","E","L","E","C","T">>

\* the text starts with SELECT and a projection of one item, * or a column or
\* a string, that ends before the third token
OneItemProjection ==
    /\ Len(tokens) >= 3
    /\ StartToken.kind = "Select"
    /\ \/ tokens[2].kind = "Star"
       \/ /\ tokens[2].kind \in {"Identifier", "String"}
          /\ from_token(tokens[3].kind) = None
          /\ tokens[3].kind # "Comma"

\* the tracker was called for expected at token t, with the text of t as found
TrackedAt(t, expected) ==
    \E i \in 1..Len(calls) :
        calls[i] = [pos |-> t.start, expected |-> expected, found |-> Some(t.text)]

\* the only calls of the tracker are one for expected at token t and then the
\* phantom expectations, and parse_primary built no error
FailedOnlyAt(t, expected) ==
    /\ out.st = "Err"
    /\ Len(calls) = 5
    /\ calls[1] = [pos |-> t.start, expected |-> expected, found |-> Some(t.text)]
    /\ PhantomsLast
    /\ raised = <<>>
    /\ Unwrap(bt).furthest_pos = t.start
    /\ Unwrap(bt).expected = <<expected>>

\* the token is an identifier taken for a typo of WHERE after the FROM clause
WhereLike(t) ==
    /\ t.kind = "Identifier"
    /\ \/ StartsWith(to_uppercase(t.text), <<"W">>)
       \/ ContainsSub(to_uppercase(t.text), <<"H","E","R">>)

\* C25 (FROM heuristic): for the token after the projection,
\* an identifier whose upper-cased text starts with F makes parse_select fail
\* there at once with FROM tracked at it and nothing after it read;
\* any other token that is not FROM leaves the FROM clause absent with no FROM
\* expectation tracked, the WHERE clause being looked for at the same token;
\* FROM is consumed and must be followed by a table reference, an identifier,
\* whose absence is tracked at the token after FROM.
FromHeuristic ==
    (phase = "parsed" /\ OneItemProjection) =>
        LET t == tokens[3]
        IN  /\ (t.kind = "Identifier" /\ StartsWith(to_uppercase(t.text), <<"F">>)) =>
                   FailedOnlyAt(t, <<"F","R","O","M">>)
            /\ (t.kind # "From"
                    /\ ~(t.kind = "Identifier" /\ StartsWith(to_uppercase(t.text), <<"F">>))) =>
                   /\ \A i \in 1..Len(calls) : calls[i].expected # <<"F","R","O","M">>
                   /\ out.st = "Ok" => out.val.query.select.from = None
                   /\ WhereLike(t) => FailedOnlyAt(t, <<"W","H","E","R","E">>)
                   /\ (~WhereLike(t) /\ t.kind # "Where") =>
                          /\ out.st = "Ok"
                          /\ out.val.query.select.where_clause = None
                          /\ calls = <<>>
            /\ t.kind = "From" =>
                   /\ \A i \in 1..Len(calls) : calls[i].expected # <<"F","R","O","M">>
                   /\ tokens[4].kind # "Identifier" =>
                          FailedOnlyAt(tokens[4], <<"i","d","e","n","t","i","f","i","e","r">>)
                   /\ out.st = "Ok" =>
                          /\ tokens[4].kind = "Identifier"
                          /\ IsSome(out.val.query.select.from)
                          /\ Unwrap(out.val.query.select.from).name = tokens[4].text

\* C25 witness: SELECT * is followed by an identifier that starts with f and
\* by further tokens, and the parse failed at that identifier.
FromHeuristicWitness ==
    /\ phase = "parsed"
    /\ OneItemProjection
    /\ tokens[3].kind = "Identifier"
    /\ StartsWith(tokens[3].text, <<"f">>)
    /\ Len(tokens) > 4
    /\ out.st = "Err"
    /\ TrackedAt(tokens[3], <<"F","R","O","M">>)

\* the token is an identifier parse_table_ref takes for a typo of WHERE
WhereTypoLike(t) ==
    /\ t.kind = "Identifier"
    /\ \/ StartsWith(to_uppercase(t.text), <<"W","H","E","R">>)
       \/ StartsWith(to_uppercase(t.text), <<"W","H","R","E">>)
       \/ StartsWith(to_uppercase(t.text), <<"W","H","E","E","R">>)

\* the text starts with SELECT, a one-item projection and either no FROM
\* clause or a complete one: FROM table, FROM table alias or FROM table AS alias
CompleteFromClause ==
    /\ OneItemProjection
    /\ IF tokens[3].kind = "From"
       THEN /\ Len(tokens) >= 5
            /\ tokens[4].kind = "Identifier"
            /\ tokens[5].kind = "As" => (Len(tokens) >= 7 /\ tokens[6].kind = "Identifier")
            /\ tokens[5].kind = "Identifier" => ~WhereTypoLike(tokens[5])
       ELSE ~(tokens[3].kind = "Identifier" /\ StartsWith(to_uppercase(tokens[3].text), <<"F">>))

\* the index of the token after the FROM clause, or after the projection when
\* there is no FROM clause
AfterFromClause ==
    IF tokens[3].kind # "From" THEN 3
    ELSE IF tokens[5].kind = "As" THEN 7
    ELSE IF tokens[5].kind = "Identifier" THEN 6
    ELSE 5

\* C26 (WHERE heuristic): for the token after the FROM clause, or after the
\* projection when there is no FROM clause,
\* an identifier whose upper-cased text starts with W or contains HER makes
\* parse_select fail there at once with WHERE tracked at it;
\* any other token that is not WHERE leaves the WHERE clause absent with
\* nothing tracked, and the statement is returned;
\* WHERE is consumed and must be followed by an expression: the statement
\* returned has a WHERE expression, and the parse fails when no expression
\* starts at the next token.
WhereHeuristic ==
    (phase = "parsed" /\ CompleteFromClause) =>
        LET n == AfterFromClause
            w == tokens[n]
        IN  /\ WhereLike(w) => FailedOnlyAt(w, <<"W","H","E","R","E">>)
            /\ (w.kind # "Where" /\ ~WhereLike(w)) =>
                   /\ out.st = "Ok"
                   /\ out.val.query.select.where_clause = None
                   /\ out.val.query.select.from = None <=> tokens[3].kind # "From"
                   /\ calls = <<>>
                   /\ pos = n - 1
            /\ w.kind = "Where" =>
                   /\ \A i \in 1..Len(calls) : calls[i].expected # <<"W","H","E","R","E">>
                   /\ out.st = "Ok" =>
                          /\ IsSome(out.val.query.select.where_clause)
                          /\ pos > n
                   /\ tokens[n + 1].kind \in {"Eof", "RightParen", "Comma", "From", "Where"} =>
                          /\ out.st = "Err"
                          /\ Len(raised) = 1
                          /\ raised[1].cursor = n

\* C26 witness: the token after a complete FROM clause is an identifier that
\* contains her without starting with w, and the parse failed at it.
WhereHeuristicWitness ==
    /\ phase = "parsed"
    /\ CompleteFromClause
    /\ tokens[3].kind = "From"
    /\ WhereLike(tokens[AfterFromClause])
    /\ ~StartsWith(to_uppercase(tokens[AfterFromClause].text), <<"W">>)
    /\ out.st = "Err"
    /\ TrackedAt(tokens[AfterFromClause], <<"W","H","E","R","E">>)

\* the text starts with SELECT, a one-item projection, FROM and a table name
FromTable ==
    /\ OneItemProjection
    /\ Len(tokens) >= 5
    /\ tokens[3].kind = "From"
    /\ tokens[4].kind = "Identifier"

\* C27 (table alias): for the token after the table name,
\* an identifier whose upper-cased text starts with WHER, WHRE or WHEER makes
\* the parse fail with WHERE tracked at it;
\* any other identifier is consumed as the alias;
\* AS is consumed and must be followed by an identifier, which is the alias,
\* and whose absence is tracked at the token after AS;
\* any other token leaves the table without alias.
TableAlias ==
    (phase = "parsed" /\ FromTable) =>
        LET a == tokens[5]
            from == Unwrap(out.val.query.select.from)
        IN  /\ WhereTypoLike(a) => FailedOnlyAt(a, <<"W","H","E","R","E">>)
            /\ (a.kind = "Identifier" /\ ~WhereTypoLike(a)) =>
                   /\ \A i \in 1..Len(calls) : calls[i].pos # a.start
                   /\ out.st = "Ok" =>
                          (from = TableRef(tokens[4].text, Some(a.text)) /\ pos >= 5)
                   /\ (tokens[6].kind # "Where" /\ ~WhereLike(tokens[6])) => out.st = "Ok"
            /\ a.kind = "As" =>
                   /\ tokens[6].kind # "Identifier" =>
                          FailedOnlyAt(tokens[6], <<"i","d","e","n","t","i","f","i","e","r">>)
                   /\ out.st = "Ok" =>
                          (from = TableRef(tokens[4].text, Some(tokens[6].text)) /\ pos >= 6)
            /\ (a.kind \notin {"Identifier", "As"} /\ out.st = "Ok") =>
                   from = TableRef(tokens[4].text, None)

\* C27 witness: an identifier that starts with w without matching the typo
\* pattern stands after the table name and has become the alias.
TableAliasWitness ==
    /\ phase = "parsed"
    /\ FromTable
    /\ tokens[5].kind = "Identifier"
    /\ WhereLike(tokens[5])
    /\ ~WhereTypoLike(tokens[5])
    /\ out.st = "Ok"
    /\ Unwrap(out.val.query.select.from).alias = Some(tokens[5].text)

\* the token at which the first CTE of the header starts
FirstCte == IF tokens[2].kind = "Recursive" THEN 3 ELSE 2

\* the tokens at which the CTEs of the header start: the first one and the
\* ones after a comma outside every parenthesis
CteStarts ==
    {FirstCte} \cup {j + 1 : j \in {i \in 2..(HeaderEnd - 1) :
                                       tokens[i].kind = "Comma" /\ ParenDepth(i) = 0}}

\* the first token after the ( at b + 1 that does not continue a list of
\* identifiers separated by commas
ColsStop(b) ==
    SetMin({j \in (b + 2)..Len(tokens) :
               IF (j - b) % 2 = 0 THEN tokens[j].kind # "Identifier"
               ELSE tokens[j].kind # "Comma"})

\* the first mandatory element missing from the CTE that starts at token b, as
\* the index of the offending token and the label of the element, if one is
\* missing; the closing parenthesis is looked for after a body SELECT <item>
\* whose item is *, a column, a string or a number of at most 18 characters
CteFault(b) ==
    LET cols == tokens[b + 1].kind = "LeftParen"
        k == IF cols THEN ColsStop(b) + 1 ELSE b + 1
    IN  IF tokens[b].kind # "Identifier"
        THEN Some(<<b, <<"i","d","e","n","t","i","f","i","e","r">>>>)
        ELSE IF cols /\ (ColsStop(b) - b) % 2 = 0
        THEN Some(<<ColsStop(b), <<"i","d","e","n","t","i","f","i","e","r">>>>)
        ELSE IF cols /\ tokens[ColsStop(b)].kind # "RightParen"
        THEN Some(<<ColsStop(b), <<"R","i","g","h","t","P","a","r","e","n">>>>)
        ELSE IF tokens[k].kind # "As"
        THEN Some(<<k, <<"A","s">>>>)
        ELSE IF tokens[k + 1].kind # "LeftParen"
        THEN Some(<<k + 1, <<"L","e","f","t","P","a","r","e","n">>>>)
        ELSE IF tokens[k + 2].kind \notin {"Select", "With"}
        THEN Some(<<k + 2, <<"S","E","L","E","C","T">>>>)
        ELSE IF /\ tokens[k + 2].kind = "Select"
                /\ \/ tokens[k + 3].kind \in {"Star", "Identifier", "String"}
                   \/ tokens[k + 3].kind = "Number" /\ Len(tokens[k + 3].text) <= 18
                /\ tokens[k + 4].kind \in {"Eof", "Select", "With", "As", "LeftParen",
                                           "Recursive", "Semicolon", "All", "String"}
        THEN Some(<<k + 4, <<"R","i","g","h","t","P","a","r","e","n">>>>)
        ELSE None

\* C28 (CTE structure): in a text that starts with WITH, when a mandatory
\* element of the first CTE is missing (the name, a name of the column list,
\* the ) of the column list, AS, the ( before the query, the query, the )
\* after it), the text is rejected and the first failure tracked is that
\* element expected at the offending token, followed only by the SELECT
\* attempt and the phantom expectations; every CTE of an accepted text has all
\* its elements and a query as body; WITH t AS SELECT 1 SELECT * FROM t is
\* rejected with LeftParen expected at SELECT.
CteStructure ==
    (phase = "parsed" /\ StartToken.kind = "With") =>
        /\ IsSome(CteFault(FirstCte)) =>
               LET fault == Unwrap(CteFault(FirstCte))
                   t == tokens[fault[1]]
               IN  /\ out.st = "Err"
                   /\ Len(calls) = 6
                   /\ calls[1] = [pos |-> t.start, expected |-> fault[2], found |-> Some(t.text)]
                   /\ SelectAtStart(2)
                   /\ raised = <<>>
                   /\ Unwrap(bt).furthest_pos = t.start
        /\ out.st = "Ok" =>
               /\ \A b \in CteStarts : CteFault(b) = None
               /\ \A k \in 1..Len(out.val.query.with.ctes) :
                      out.val.query.with.ctes[k].query.node \in {"Select", "Union", "With"}
        /\ input = <<"W","I","T","H"," ","t"," ","A","S"," ","S","E","L","E","C","T"," ","1"," ","S","E","L","E","C","T"," ","*"," ","F","R","O","M"," ","t">> =>
               /\ out.st = "Err"
               /\ out.val.message = <<"E","x","p","e","c","t","e","d"," ","L","e","f","t","P","a","r","e","n",","," ","f","o","u","n","d"," ","'","S","E","L","E","C","T","'">>
               /\ out.val.column = 11

\* C28 witness: a CTE with a name, AS and ( lacks the ) after its query, and
\* the text has been rejected at the token found there.
CteStructureWitness ==
    /\ phase = "parsed"
    /\ StartToken.kind = "With"
    /\ IsSome(CteFault(FirstCte))
    /\ Unwrap(CteFault(FirstCte))[2] = <<"R","i","g","h","t","P","a","r","e","n">>
    /\ tokens[FirstCte + 1].kind = "As"
    /\ out.st = "Err"
    /\ out.val.column > 1


(***************************************************************************)
(* Properties of parse_expr                                                *)
(***************************************************************************)
\* the precedence of each BinaryOp
OpPrecedence(op) ==
    CASE op = "Or" -> 10
      [] op = "And" -> 20
      [] op \in {"Equal", "NotEqual"} -> 30
      [] op \in {"Less", "Greater", "LessEqual", "GreaterEqual"} -> 40
      [] op \in {"Plus", "Minus"} -> 50
      [] op \in {"Multiply", "Divide"} -> 60

\* every Binary node of e has a right Binary child of strictly greater
\* precedence and a left Binary child of greater or equal precedence
RECURSIVE PrecedenceNested(_)
PrecedenceNested(e) ==
    CASE e.node = "Binary" ->
             /\ e.right.node = "Binary" => OpPrecedence(e.right.op) > OpPrecedence(e.op)
             /\ e.left.node = "Binary" => OpPrecedence(e.left.op) >= OpPrecedence(e.op)
             /\ PrecedenceNested(e.left)
             /\ PrecedenceNested(e.right)
      [] e.node = "Paren" -> PrecedenceNested(e.inner)
      [] OTHER -> TRUE

Number(ds) == Literal("Number", [neg |-> FALSE, digits |-> ds])

PrecedenceExamplesHold ==
    /\ input = <<"2"," ","+"," ","3"," ","*"," ","4">> =>
           out = [st |-> "Ok",
                  val |-> Binary(Number(<<"2">>), "Plus",
                                 Binary(Number(<<"3">>), "Multiply", Number(<<"4">>)))]
    /\ input = <<"a"," ",">"," ","1","8"," ","A","N","D"," ","s"," ","="," ","'","x","'"," ","O","R"," ","d"," ","="," ","1">> =>
           out = [st |-> "Ok",
                  val |-> Binary(Binary(Binary(Column(<<"a">>), "Greater", Number(<<"1","8">>)),
                                        "And",
                                        Binary(Column(<<"s">>), "Equal", Literal("String", <<"x">>))),
                                 "Or",
                                 Binary(Column(<<"d">>), "Equal", Number(<<"1">>)))]

\* C6 (precedence nesting): in every tree parse_expr produces, a right child
\* that is a Binary node binds strictly tighter than its parent and a left
\* child that is a Binary node binds at least as tight; 2 + 3 * 4 yields
\* (2 + (3 * 4)) and a > 18 AND s = 'x' OR d = 1 yields
\* (((a > 18) AND (s = 'x')) OR (d = 1)).
PrecedenceNesting ==
    phase = "parsed" =>
        /\ out.st = "Ok" => PrecedenceNested(out.val)
        /\ PrecedenceExamplesHold

\* C6 witness: a tree whose root has a Binary node on both sides, a tighter
\* one on the right and one of a different operator on the left.
PrecedenceNestingWitness ==
    /\ phase = "parsed"
    /\ out.st = "Ok"
    /\ out.val.node = "Binary"
    /\ out.val.left.node = "Binary"
    /\ out.val.right.node = "Binary"
    /\ OpPrecedence(out.val.right.op) > OpPrecedence(out.val.op)
    /\ OpPrecedence(out.val.left.op) > OpPrecedence(out.val.op)

\* the tokens are x1 op x2 op ... op xn Eof, n >= 2, every operand a single
\* identifier or number token and every operator of the same precedence
SamePrecedenceChain ==
    /\ Len(tokens) >= 4
    /\ Len(tokens) % 2 = 0
    /\ \A i \in 1..(Len(tokens) - 1) :
           IF i % 2 = 1
           THEN tokens[i].kind = "Identifier"
                    \/ (tokens[i].kind = "Number" /\ IsSome(parse_i64(tokens[i].text)))
           ELSE /\ IsSome(from_token(tokens[i].kind))
                /\ OpPrecedence(Unwrap(from_token(tokens[i].kind)))
                       = OpPrecedence(Unwrap(from_token(tokens[2].kind)))

OperandOf(t) ==
    IF t.kind = "Identifier" THEN Column(t.text)
    ELSE Literal("Number", Unwrap(parse_i64(t.text)))

\* (((x1 op x2) op x3) ... op xk) for the first 2k - 1 tokens
RECURSIVE LeftLeaning(_, _)
LeftLeaning(toks, k) ==
    IF k = 1 THEN OperandOf(toks[1])
    ELSE Binary(LeftLeaning(toks, k - 1),
                Unwrap(from_token(toks[2 * k - 2].kind)),
                OperandOf(toks[2 * k - 1]))

\* C7 (left associativity): a chain of operands joined by operators of the
\* same precedence parses to the left-leaning tree, the right child of every
\* Binary node being a single operand; a - b - c yields ((a - b) - c).
LeftAssociative ==
    phase = "parsed" =>
        /\ SamePrecedenceChain => out = [st |-> "Ok", val |-> LeftLeaning(tokens, Len(tokens) \div 2)]
        /\ input = <<"a"," ","-"," ","b"," ","-"," ","c">> =>
               out = [st |-> "Ok",
                      val |-> Binary(Binary(Column(<<"a">>), "Minus", Column(<<"b">>)),
                                     "Minus", Column(<<"c">>))]

\* C7 witness: a chain of three operators of one precedence, not all the same
\* operator, has been parsed.
LeftAssociativeWitness ==
    /\ phase = "parsed"
    /\ SamePrecedenceChain
    /\ Len(tokens) = 8
    /\ tokens[2].kind # tokens[4].kind
    /\ out.st = "Ok"
    /\ out.val.right.node = "Column"
    /\ out.val.left.left.node = "Binary"


(***************************************************************************)
(* Properties of parse_sql on well-formed simple queries                   *)
(***************************************************************************)
\* the token FROM and, if written, the token WHERE of a simple query
FromIndex == CHOOSE i \in 1..Len(tokens) : tokens[i].kind = "From"

HasWhere == \E i \in 1..Len(tokens) : tokens[i].kind = "Where"

WhereIndex == CHOOSE i \in 1..Len(tokens) : tokens[i].kind = "Where"

\* the value of the literal v of the WHERE clause
LiteralOf(t) ==
    IF t.kind = "String" THEN Literal("String", SubSeq(t.text, 2, Len(t.text) - 1))
    ELSE Literal("Number", [neg |-> FALSE, digits |-> t.text])

\* the statement a simple query stands for
SimpleStatement ==
    LET cols == SelectSeq(SubSeq(tokens, 2, FromIndex - 1), LAMBDA t : t.kind = "Identifier")
        where == IF HasWhere
                 THEN Some(Binary(Column(tokens[WhereIndex + 1].text),
                                  Unwrap(from_token(tokens[WhereIndex + 2].kind)),
                                  LiteralOf(tokens[WhereIndex + 3])))
                 ELSE None
    IN  StatementQuery(QuerySelect(
            SelectStmt([k \in 1..Len(cols) |-> Column(cols[k].text)],
                       Some(TableRef(tokens[FromIndex + 1].text, None)),
                       where)))

\* every integer literal of the query is at most 9223372036854775807
IntegersFit ==
    \A i \in 1..Len(tokens) :
        tokens[i].kind = "Number" =>
            \/ Len(tokens[i].text) < Len(I64MaxDigits)
            \/ /\ Len(tokens[i].text) = Len(I64MaxDigits)
               /\ DigitsLeq(tokens[i].text, I64MaxDigits)

\* C14 as stated: every well-formed simple query is accepted, whatever the
\* identifiers, the comparison operator and the literal (any non-negative
\* integer or quoted string).
SimpleQueryAccepted ==
    phase = "parsed" => out.st = "Ok"

\* C14 amended: every well-formed simple query whose integer literal is at
\* most 9223372036854775807 is accepted, whatever the identifiers (those
\* beginning with f or w included), the comparison operator and the quoted
\* string, and the statement returned holds the columns, the table and the
\* comparison as written.
SimpleQueryAcceptedInRange ==
    (phase = "parsed" /\ IntegersFit) =>
        /\ out.st = "Ok"
        /\ out.val = SimpleStatement

\* C14 witness: a query whose table and compared column begin with w and f and
\* whose literal is the greatest 64-bit integer has been accepted.
SimpleQueryWitness ==
    /\ phase = "parsed"
    /\ out.st = "Ok"
    /\ HasWhere
    /\ tokens[FromIndex + 1].text = <<"w","h","e","r">>
    /\ tokens[WhereIndex + 1].text = <<"f","o","r","m">>
    /\ tokens[WhereIndex + 2].kind = "NotEqual"
    /\ tokens[WhereIndex + 3].text = I64MaxDigits


(***************************************************************************)
(* Properties of parse_primary on a parenthesized expression               *)
(***************************************************************************)
IsOperand(t) == t.kind = "Identifier" \/ (t.kind = "Number" /\ Len(t.text) <= 18)

IsOperator(t) == IsSome(from_token(t.kind))

\* the text starts with ( or with an operand, an operator and (
ParenCase ==
    /\ Len(tokens) >= 3
    /\ \/ tokens[1].kind = "LeftParen"
       \/ IsOperand(tokens[1]) /\ IsOperator(tokens[2]) /\ tokens[3].kind = "LeftParen"

OpenIndex == IF tokens[1].kind = "LeftParen" THEN 1 ELSE 3

\* the first token after the ( that does not continue a chain
\* operand operator operand ...
InnerStop ==
    SetMin({j \in (OpenIndex + 1)..Len(tokens) :
               IF (j - OpenIndex) % 2 = 1 THEN ~IsOperand(tokens[j])
               ELSE ~IsOperator(tokens[j])})

\* the chain after the ( is a complete expression: it ends after an operand
InnerComplete == (InnerStop - OpenIndex) % 2 = 0

\* the operands written between the parentheses, in source order
InnerOperands ==
    [k \in 1..((InnerStop - OpenIndex) \div 2) |-> OperandOf(tokens[OpenIndex + 2 * k - 1])]

\* the operands of e in source order, a Paren node counting as one operand
RECURSIVE TopLeaves(_)
TopLeaves(e) ==
    IF e.node = "Binary" THEN TopLeaves(e.left) \o TopLeaves(e.right) ELSE <<e>>

\* C30 (parenthesized primary): after ( and a complete inner expression,
\* a next token other than ) makes the parse fail with the closing
\* parenthesis expected at that token as the only tracked failure;
\* with ) there, nothing is tracked and the operand at the place of the ( is
\* a Paren node that holds the whole inner expression, every operand written
\* between the parentheses, whatever operator stands before the (;
\* a * ( b + c ) gives a * Paren(b + c) and ( ( 1 ) ) gives Paren(Paren(1)).
ParenRequiresClose ==
    phase = "parsed" =>
        /\ (ParenCase /\ InnerComplete) =>
               LET next == tokens[InnerStop]
                   paren == TopLeaves(out.val)[IF OpenIndex = 1 THEN 1 ELSE 2]
               IN  /\ next.kind # "RightParen" =>
                          /\ out.st = "Err"
                          /\ calls = <<[pos |-> next.start,
                                        expected |-> <<"R","i","g","h","t","P","a","r","e","n">>,
                                        found |-> Some(next.text)]>>
                          /\ raised = <<>>
                   /\ next.kind = "RightParen" =>
                          /\ \A i \in 1..Len(calls) : calls[i].pos # next.start
                          /\ ~IsOperator(tokens[InnerStop + 1]) => out.st = "Ok"
                          /\ out.st = "Ok" =>
                                 /\ paren.node = "Paren"
                                 /\ TopLeaves(paren.inner) = InnerOperands
        /\ input = <<"a"," ","*"," ","("," ","b"," ","+"," ","c"," ",")">> =>
               out = [st |-> "Ok",
                      val |-> Binary(Column(<<"a">>), "Multiply",
                                     Paren(Binary(Column(<<"b">>), "Plus", Column(<<"c">>))))]
        /\ input = <<"("," ","("," ","1"," ",")"," ",")">> =>
               out = [st |-> "Ok", val |-> Paren(Paren(Number(<<"1">>)))]

\* C30 witness: after an operand, an operator and ( an inner expression of
\* three operands is followed by an identifier instead of ), and the parse
\* failed at that identifier.
ParenRequiresCloseWitness ==
    /\ phase = "parsed"
    /\ ParenCase
    /\ OpenIndex = 3
    /\ InnerComplete
    /\ InnerStop = OpenIndex + 6
    /\ tokens[InnerStop].kind = "Identifier"
    /\ out.st = "Err"
    /\ Unwrap(bt).furthest_pos = tokens[InnerStop].start


(***************************************************************************)
(* parse_query on chains of SELECT statements joined by UNION or UNION ALL *)
(***************************************************************************)
\* The chains have at most MaxSelects SELECT statements.
MaxSelects == 3

\* what follows SELECT in a statement of a chain
QueryItems == {
    <<<<"1">>>>,
    <<<<"*">>>>,
    <<<<"a">>, <<"F","R","O","M">>, <<"t">>>>
}

\* the words of the chain items[k], items[k + 1], ... where alls[j] tells
\* whether ALL is written after the UNION that follows items[j]
RECURSIVE ChainWords(_, _, _)
ChainWords(items, alls, k) ==
    LET select == <<<<"S","E","L","E","C","T">>>> \o items[k]
        union == IF alls[k] THEN <<<<"U","N","I","O","N">>, <<"A","L","L">>>>
                 ELSE <<<<"U","N","I","O","N">>>>
    IN  IF k = Len(items) THEN select
        ELSE select \o union \o ChainWords(items, alls, k + 1)

UnionChains ==
    UNION {{Unsplit(ChainWords(items, alls, 1)) :
                items \in [1..n -> QueryItems], alls \in [1..(n - 1) -> BOOLEAN]} :
           n \in 1..MaxSelects}

InitQuery ==
    /\ phase = "source"
    /\ input \in UnionChains
    /\ tokens = <<>>
    /\ pos = 0
    /\ bt = None
    /\ calls = <<>>
    /\ raised = <<>>
    /\ out = None
    /\ strsim = "0.11"

\* Parser::new(&tokens, &backtrace, sql).parse_query()
ParseQuery ==
    /\ phase = "tokens"
    /\ LET r == parse_query(Parser(tokens, input), Depth(tokens))
       IN  /\ out' = Outcome(r)
           /\ pos' = r.P.pos
           /\ bt' = r.P.bt
           /\ calls' = r.P.log
           /\ raised' = r.P.raised
    /\ phase' = "parsed"
    /\ UNCHANGED <<input, tokens, strsim>>

NextQuery == Tokenize \/ ParseQuery

SpecQuery == InitQuery /\ [][NextQuery]_vars

\* the SELECT and the UNION tokens of the chain, in source order
SelectIndexes == SortedSeq({i \in 1..Len(tokens) : tokens[i].kind = "Select"})

UnionIndexes == SortedSeq({i \in 1..Len(tokens) : tokens[i].kind = "Union"})

\* the Select node the statement that starts at token s stands for
SelectNodeAt(s) ==
    LET item == tokens[s + 1]
        projection == IF item.kind = "Star" THEN Star ELSE OperandOf(item)
        from == IF tokens[s + 2].kind = "From"
                THEN Some(TableRef(tokens[s + 3].text, None)) ELSE None
    IN  QuerySelect(SelectStmt(<<projection>>, from, None))

\* q is the tree of the statements k, k + 1, ... of the chain nested to the
\* right, each Union node carrying the flag of its own UNION
RECURSIVE RightNested(_, _)
RightNested(q, k) ==
    IF k = Len(SelectIndexes) THEN q = SelectNodeAt(SelectIndexes[k])
    ELSE /\ q.node = "Union"
         /\ q.left = SelectNodeAt(SelectIndexes[k])
         /\ q.all = (tokens[UnionIndexes[k] + 1].kind = "All")
         /\ RightNested(q.right, k + 1)

\* C29 (UNION chains): parse_query turns S1 UNION S2 UNION S3 ... into
\* Union{left: S1, right: Union{left: S2, ...}}: the left child of every Union
\* node is the Select node of the statement before its UNION, the right child
\* holds the rest of the chain, and the all flag of a Union node is true
\* exactly when ALL directly follows its UNION.
UnionRightNested ==
    phase = "parsed" =>
        /\ out.st = "Ok"
        /\ Len(UnionIndexes) = Len(SelectIndexes) - 1
        /\ RightNested(out.val, 1)
        /\ calls = <<>>

\* C29 witness: a chain of three statements has been parsed whose first UNION
\* is followed by ALL and whose second is not.
UnionRightNestedWitness ==
    /\ phase = "parsed"
    /\ out.st = "Ok"
    /\ Len(SelectIndexes) = 3
    /\ tokens[UnionIndexes[1] + 1].kind = "All"
    /\ tokens[UnionIndexes[2] + 1].kind # "All"
    /\ out.val.all
    /\ ~out.val.right.all
    /\ out.val.right.right.node = "Select"


(***************************************************************************)
(* The cursor operations of the parser applied one at a time, in any       *)
(* order, to a parser over the tokens of a text.  `out` holds the start    *)
(* position parse_statement recorded, the operation of the last step and    *)
(* the cursor before it.                                                   *)
(***************************************************************************)
CursorTexts == {
    <<>>,
    <<"F","R","O","M">>,
    <<"("," ","a"," ",")">>,
    <<"S","E","L","E","C","T"," ","*"," ","F","R","O","M"," ","t">>,
    <<"é"," ","a">>
}

CursorKinds == {"From", "RightParen"}

InitCursor ==
    /\ phase = "source"
    /\ input \in CursorTexts
    /\ tokens = <<>>
    /\ pos = 0
    /\ bt = None
    /\ calls = <<>>
    /\ raised = <<>>
    /\ out = None
    /\ strsim = "0.11"

\* the parser the operations act on
Self == [Parser(tokens, input) EXCEPT !.pos = pos, !.bt = bt]

\* the state after an operation that left the parser as P
Stepped(op, P) ==
    /\ pos' = P.pos
    /\ bt' = P.bt
    /\ out' = [start_pos |-> out.start_pos, op |-> op, from |-> pos]
    /\ phase' = IF P.panic THEN "panicked" ELSE "parsing"
    /\ UNCHANGED <<input, tokens, calls, raised, strsim>>

\* parse_statement: let start_pos = self.pos
RecordStart ==
    /\ phase \in {"tokens", "parsing"}
    /\ out' = [start_pos |-> pos, op |-> "start", from |-> pos]
    /\ phase' = "parsing"
    /\ UNCHANGED <<input, tokens, pos, bt, calls, raised, strsim>>

Advance == phase = "parsing" /\ Stepped("advance", advance(Self))

Expect(kind) == phase = "parsing" /\ Stepped("expect", expect(Self, kind).P)

TryConsume(kind) == phase = "parsing" /\ Stepped("try_consume", try_consume(Self, kind).P)

ParseIdentifier == phase = "parsing" /\ Stepped("parse_identifier", parse_identifier(Self).P)

\* parse_statement: self.pos = start_pos
Rewind == phase = "parsing" /\ Stepped("rewind", rewind(Self, out.start_pos))

NextCursor ==
    \/ Tokenize
    \/ RecordStart
    \/ Advance
    \/ \E kind \in CursorKinds : Expect(kind)
    \/ \E kind \in CursorKinds : TryConsume(kind)
    \/ ParseIdentifier
    \/ Rewind

SpecCursor == InitCursor /\ [][NextCursor]_vars

\* C32 (monotonic cursor): advance, expect, try_consume and parse_identifier
\* leave the cursor where it was or move it forward by exactly one token; the
\* cursor decreases only when parse_statement assigns it its recorded start
\* position, which is never after the cursor.
CursorMonotonic ==
    [][phase = "parsing" =>
           /\ out'.op \in {"advance", "expect", "try_consume", "parse_identifier"} =>
                  pos' \in {pos, pos + 1}
           /\ pos' < pos => (out'.op = "rewind" /\ pos' = out.start_pos)
           /\ out'.op = "rewind" => (pos' = out.start_pos /\ pos' <= pos)]_vars

\* C32 witness: the start position was recorded past the first token, the
\* cursor moved on from there, and the rewind has put it back.
CursorMonotonicWitness ==
    /\ phase = "parsing"
    /\ out.op = "rewind"
    /\ out.start_pos > 0
    /\ out.from > out.start_pos + 1
    /\ pos = out.start_pos

\* C37 (cursor range): on the tokens of tokenize the cursor always satisfies
\* 0 <= pos <= len(tokens) - 1, whatever operations are applied: advance on
\* the final Eof token does not move, no operation indexes outside the tokens,
\* and current() is a token in every state, so the branches for
\* current() = None cannot be taken and no failure is tracked without a found
\* text.
CursorInRange ==
    phase \in {"tokens", "parsing", "panicked"} =>
        /\ phase # "panicked"
        /\ 0 <= pos
        /\ pos <= Len(tokens) - 1
        /\ IsSome(current(Self))
        /\ tokens[Len(tokens)].kind = "Eof"
        /\ IsSome(bt) => IsSome(Unwrap(bt).found)

\* C37 witness: advance was applied with the cursor on the final Eof token of
\* a text of several tokens, and the cursor stayed there.
CursorInRangeWitness ==
    /\ phase = "parsing"
    /\ Len(tokens) > 2
    /\ out.op = "advance"
    /\ out.from = Len(tokens) - 1
    /\ pos = Len(tokens) - 1
    /\ Unwrap(current(Self)).kind = "Eof"

(***************************************************************************)
(* Properties of what parse_statement returns to the caller                *)
(***************************************************************************)
UnexpectedError == <<"U","n","e","x","p","e","c","t","e","d"," ","e","r","r","o","r">>

\* C33 (no fallback diagnostic): whenever parse_statement fails, at least one
\* failure was tracked before the diagnostic is built, so the tracker is not
\* empty and the diagnostic returned is never the "Unexpected error" of an
\* empty tracker.
NeverFallbackDiagnostic ==
    (phase = "parsed" /\ out.st = "Err") =>
        /\ calls # <<>>
        /\ IsSome(bt)
        /\ Unwrap(bt).expected # <<>>
        /\ out.val.message # UnexpectedError
        /\ out.val = get_error(bt, input)

\* C33 witness: the parse failed in parse_primary, which tracks nothing, so
\* the four expectations of the other statement types are all that was tracked.
NeverFallbackDiagnosticWitness ==
    /\ phase = "parsed"
    /\ out.st = "Err"
    /\ raised # <<>>
    /\ Len(calls) = 4
    /\ \A i \in 1..4 : PhantomCall(i)

\* the tokens consumed by the parse, followed by the Eof token
ConsumedTokens == SubSeq(tokens, 1, pos) \o <<tokens[Len(tokens)]>>

\* the result of parse_statement on the consumed tokens alone
ConsumedOutcome ==
    Outcome(parse_statement(Parser(ConsumedTokens, input), Depth(tokens)))

\* C34 (trailing tokens): a successful parse may stop before the Eof token:
\* the statement returned is the statement of the tokens consumed, whatever
\* follows them, and the cursor stays on the first token that was not
\* consumed; SELECT * FROM t1, t2 is accepted as SELECT * FROM t1 and
\* SELECT COUNT(*) FROM t as SELECT COUNT.
TrailingTokensIgnored ==
    phase = "parsed" =>
        /\ out.st = "Ok" =>
               /\ pos <= Len(tokens) - 1
               /\ ConsumedOutcome = out
        /\ input = <<"S","E","L","E","C","T"," ","*"," ","F","R","O","M"," ","t","1",","," ","t","2">> =>
               /\ out = [st |-> "Ok",
                         val |-> StatementQuery(QuerySelect(SelectStmt(<<Star>>,
                                     Some(TableRef(<<"t","1">>, None)), None)))]
               /\ pos = 4
        /\ input = <<"S","E","L","E","C","T"," ","C","O","U","N","T","(","*",")"," ","F","R","O","M"," ","t">> =>
               /\ out = [st |-> "Ok",
                         val |-> StatementQuery(QuerySelect(SelectStmt(
                                     <<Column(<<"C","O","U","N","T">>)>>, None, None)))]
               /\ pos = 2

\* C34 witness: a statement was returned with at least two tokens left before
\* the Eof token, the first of them a comma.
TrailingTokensIgnoredWitness ==
    /\ phase = "parsed"
    /\ out.st = "Ok"
    /\ pos + 2 < Len(tokens)
    /\ tokens[pos + 1].kind = "Comma"
    /\ IsSome(out.val.query.select.from)

\* the number of Union nodes of a query
RECURSIVE UnionNodes(_)
UnionNodes(q) ==
    IF q.node = "Union" THEN 1 + UnionNodes(q.left) + UnionNodes(q.right)
    ELSE IF q.node = "With"
    THEN UnionNodes(q.query)
         + (LET RECURSIVE Sum(_)
                Sum(k) == IF k = 0 THEN 0
                          ELSE UnionNodes(q.with.ctes[k].query) + Sum(k - 1)
            IN  Sum(Len(q.with.ctes)))
    ELSE 0

\* the number of UNION tokens among the tokens consumed
UnionsConsumed == Cardinality({k \in 1..pos : tokens[k].kind = "Union"})

\* C35 (top-level statement): a statement returned for a text whose first
\* token is not WITH is a Select node and the parse consumed no UNION token;
\* Union nodes stand only under a With node, one for every UNION token
\* consumed; SELECT 1 UNION SELECT 2 returns the Select node of SELECT 1 and
\* leaves the cursor on UNION.
TopLevelSelectOnly ==
    (phase = "parsed" /\ out.st = "Ok") =>
        /\ StartToken.kind # "With" =>
               /\ out.val.node = "Query"
               /\ out.val.query.node = "Select"
               /\ UnionsConsumed = 0
        /\ UnionNodes(out.val.query) = UnionsConsumed
        /\ UnionNodes(out.val.query) > 0 => out.val.query.node = "With"
        /\ input = <<"S","E","L","E","C","T"," ","1"," ","U","N","I","O","N"," ","S","E","L","E","C","T"," ","2">> =>
               /\ out.val = StatementQuery(QuerySelect(SelectStmt(
                                <<Literal("Number", [neg |-> FALSE, digits |-> <<"1">>])>>,
                                None, None)))
               /\ pos = 2

\* C35 witness: a statement was returned with the cursor left on a UNION
\* token that is followed by SELECT.
TopLevelSelectOnlyWitness ==
    /\ phase = "parsed"
    /\ out.st = "Ok"
    /\ StartToken.kind = "Select"
    /\ pos + 2 < Len(tokens)
    /\ tokens[pos + 1].kind = "Union"
    /\ tokens[pos + 2].kind = "Select"

\* the messages parse_primary gives to error_at_current
PrimaryMessages == {
    <<"E","x","p","e","c","t","e","d"," ","e","x","p","r","e","s","s","i","o","n">>,
    <<"U","n","e","x","p","e","c","t","e","d"," ","e","n","d"," ","o","f"," ","i","n","p","u","t">>,
    <<"I","n","v","a","l","i","d"," ","n","u","m","b","e","r">>,
    <<"I","n","v","a","l","i","d"," ","f","l","o","a","t">>
}

\* C36 (returned error): the ParseError returned is get_error on the tracker
\* as it is after the four expectations for the other statement types, which
\* are the last calls of the tracker; the errors built by error_at_current
\* during the attempts are not returned: the message is none of theirs; the
\* message reads Expected ..., found '...' with the found text of the tracker.
ReturnedErrorFromTracker ==
    (phase = "parsed" /\ out.st = "Err") =>
        /\ PhantomsLast
        /\ out.val = get_error(bt, input)
        /\ out.val.message \notin PrimaryMessages
        /\ \A i \in 1..Len(raised) :
               /\ raised[i].message \in PrimaryMessages
               /\ raised[i].message # out.val.message
        /\ StartsWith(out.val.message, <<"E","x","p","e","c","t","e","d"," ">>)
        /\ IsSome(Unwrap(bt).found)
        /\ EndsWith(out.val.message,
                    <<","," ","f","o","u","n","d"," ","'">> \o Unwrap(Unwrap(bt).found) \o <<"'">>)

\* C36 witness: the SELECT attempt failed with the error Invalid number built
\* when a failure had already been tracked, and the parse returned an error.
ReturnedErrorFromTrackerWitness ==
    /\ phase = "parsed"
    /\ out.st = "Err"
    /\ \E i \in 1..Len(raised) :
           /\ raised[i].message = <<"I","n","v","a","l","i","d"," ","n","u","m","b","e","r">>
           /\ IsSome(raised[i].bt)

(***************************************************************************)
(* Properties of the tracker state                                         *)
(***************************************************************************)
\* C38 (tracker state): once track_error has been called, the tracker holds
\* a record whose expected list is not empty and has no label twice, whose
\* furthest position is the greatest position tracked, and whose line and
\* column are those position_to_line_col gives for that furthest position.
TrackerStateInvariant ==
    calls # <<>> =>
        /\ IsSome(bt)
        /\ Unwrap(bt).expected # <<>>
        /\ \A i, j \in 1..Len(Unwrap(bt).expected) :
               Unwrap(bt).expected[i] = Unwrap(bt).expected[j] => i = j
        /\ Unwrap(bt).furthest_pos = MaxTracked
        /\ <<Unwrap(bt).line, Unwrap(bt).column>> =
               position_to_line_col(input, Unwrap(bt).furthest_pos)

\* C38 witness: the tracker moved from a position on the first line to a
\* position on the second line, where the same label was then tracked twice.
TrackerStateInvariantWitness ==
    /\ Len(calls) = 3
    /\ calls[1].pos < calls[2].pos
    /\ calls[3].pos = calls[2].pos
    /\ calls[3].expected = calls[2].expected
    /\ IsSome(bt)
    /\ Unwrap(bt).line = 2
    /\ Len(Unwrap(bt).expected) = 1

(***************************************************************************)
(* The tracker driven directly, or by the operations of the parser that    *)
(* track a failure, applied one at a time in any order.                    *)
(***************************************************************************)
FrameTexts == {
    <<"f","o","r","m"," ","t">>,
    <<"("," ","w","h","e","r"," ",")">>,
    <<"S","E","L","E","C","T"," ","*"," ","F","R","O","M"," ","t">>,
    <<"é"," ","a">>
}

\* parse_sql entered with one of the texts
InitFrame ==
    /\ phase = "source"
    /\ input \in FrameTexts
    /\ tokens = <<>>
    /\ pos = 0
    /\ bt = None
    /\ calls = <<>>
    /\ raised = <<>>
    /\ out = None
    /\ strsim = "0.11"

\* parse_statement: the four track_error calls for the other statement types
TrackOtherStatements ==
    phase = "parsing" /\ Stepped("track_others", phantom_expectations(Self))

\* parse_select: check_for_keyword_typo("FROM", &['F'])
CheckFromTypo ==
    phase = "parsing"
        /\ Stepped("check_from", check_for_keyword_typo(Self, <<"F","R","O","M">>, <<"F">>).P)

\* parse_select: check_for_where_typo()
CheckWhereTypo ==
    phase = "parsing" /\ Stepped("check_where", check_for_where_typo(Self).P)

InitTrackerOrParser == InitTracker \/ InitFrame

NextTrackerOrParser ==
    \/ NextTracker
    \/ NextCursor
    \/ TrackOtherStatements
    \/ CheckFromTypo
    \/ CheckWhereTypo

SpecTrackerOrParser == InitTrackerOrParser /\ [][NextTrackerOrParser]_vars

\* the tracker of the parser holds the text of the token that starts at its
\* furthest position
FoundIsTokenAtFurthest ==
    (phase = "parsing" /\ IsSome(bt)) =>
        /\ \E k \in 1..Len(tokens) : tokens[k].start = Unwrap(bt).furthest_pos
        /\ Unwrap(bt).found = Some(TokenAt(Unwrap(bt).furthest_pos).text)

\* an operation of the parser that changed the tracker left the cursor where
\* it was, and the tracker then holds the start and the text of the current token
TrackedCurrentToken ==
    (phase = "parsing" /\ bt' # bt) =>
        /\ pos' = pos
        /\ IsSome(bt')
        /\ Unwrap(bt').furthest_pos = tokens[pos + 1].start
        /\ Unwrap(bt').found = Some(tokens[pos + 1].text)

\* an operation of the parser that left the furthest position where it was
\* changed at most the expected list, by appending labels
SamePositionKept ==
    (phase = "parsing" /\ IsSome(bt) /\ IsSome(bt')
         /\ Unwrap(bt').furthest_pos = Unwrap(bt).furthest_pos) =>
        /\ Unwrap(bt').found = Unwrap(bt).found
        /\ Unwrap(bt').line = Unwrap(bt).line
        /\ Unwrap(bt').column = Unwrap(bt).column
        /\ StartsWith(Unwrap(bt').expected, Unwrap(bt).expected)

\* C39 (frame of a call at the furthest position): a track_error call at a
\* position equal to furthest_pos leaves furthest_pos, the found text, the
\* line and the column as the first call at that position set them, whatever
\* found text it passes, and changes at most the expected list, by appending
\* its label; the operations of the parser track the start and the text of
\* the current token, so the found text of the parser's tracker is always the
\* text of the token that starts at furthest_pos.
SamePositionFrame ==
    [][/\ (TrackStep /\ IsSome(bt) /\ Tracked.pos = Unwrap(bt).furthest_pos) =>
              /\ IsSome(bt')
              /\ Unwrap(bt').furthest_pos = Unwrap(bt).furthest_pos
              /\ Unwrap(bt').found = Unwrap(bt).found
              /\ Unwrap(bt').line = Unwrap(bt).line
              /\ Unwrap(bt').column = Unwrap(bt).column
              /\ Unwrap(bt').expected \in
                     {Unwrap(bt).expected, Append(Unwrap(bt).expected, Tracked.expected)}
       /\ TrackedCurrentToken
       /\ SamePositionKept
       /\ FoundIsTokenAtFurthest']_vars

\* C39 witness: the second call was made at the position of the first with
\* another found text and another label; the tracker holds both labels and
\* the found text of the first call.
SamePositionFrameWitness ==
    /\ phase = "tracking"
    /\ Len(calls) = 2
    /\ calls[2].pos = calls[1].pos
    /\ calls[2].found # calls[1].found
    /\ calls[2].expected # calls[1].expected
    /\ IsSome(bt)
    /\ Unwrap(bt).found = calls[1].found
    /\ Len(Unwrap(bt).expected) = 2

====
